---- MODULE Spec2Model ----
(***************************************************************************)
(* Model of the inventory variance engine of src/Inevnt.py: the classifier *)
(* InventoryAnalyzer.analyze_inventory, the status summary computed by     *)
(* InventoryManagementSystem.display_analysis_results and the vendor       *)
(* summary InventoryAnalyzer.get_vendor_summary.                           *)
(*                                                                         *)
(* Quantities, prices and stock values are Python floats in the source.    *)
(* The model draws them from integers: on integral values of this size     *)
(* float subtraction and multiplication are exact, so they are modelled by *)
(* integer arithmetic.  The division and the multiplication by 100 of the  *)
(* variance percentage round, and are modelled as the IEEE-754 binary64    *)
(* operations (round to nearest, ties to even).                            *)
(***************************************************************************)
EXTENDS Integers, Sequences, FiniteSets, TLC

----------------------------------------------------------------------------
(* Python float: IEEE-754 binary64, normal numbers and zero.               *)
(* [sign, exp, frac]: sign is -1, 0 or 1, and a nonzero number has the     *)
(* value sign * 1.frac * 2^exp, where frac holds the 52 fraction bits of   *)
(* the format as four digits of 13 bits, most significant first.  Every    *)
(* operation returns the correctly rounded result (round to nearest, ties  *)
(* to even), as the hardware does.                                         *)

\* the radix of one digit of the fraction
Base == 2^13

NoFraction == <<0, 0, 0, 0>>

FloatZero == [sign |-> 0, exp |-> 0, frac |-> NoFraction]

Sign(n) == IF n > 0 THEN 1 ELSE IF n < 0 THEN -1 ELSE 0

Abs(n) == IF n < 0 THEN -n ELSE n

\* the number of binary digits of a natural number below 2^30
BitLen(n) == IF n = 0 THEN 0 ELSE CHOOSE w \in 1..30 : 2^(w - 1) <= n /\ n < 2^w

\* frac + 1 in the last place; the carry out of the top digit is dropped
IncFraction(frac) ==
    LET low == {i \in 1..Len(frac) : frac[i] < Base - 1}
    IN  IF low = {} THEN NoFraction
        ELSE LET k == CHOOSE i \in low : \A j \in low : j <= i
             IN  [i \in 1..Len(frac) |->
                     IF i < k THEN frac[i] ELSE IF i = k THEN frac[i] + 1 ELSE 0]

\* Round 1.frac * 2^exp, followed by a guard bit and a flag for nonzero bits
\* after it, to the format: to nearest, ties to even.
RoundNearestEven(sign, exp, frac, guard, sticky) ==
    LET up == guard = 1 /\ (sticky \/ frac[Len(frac)] % 2 = 1)
    IN  IF ~up THEN [sign |-> sign, exp |-> exp, frac |-> frac]
        ELSE IF \A i \in 1..Len(frac) : frac[i] = Base - 1
             THEN [sign |-> sign, exp |-> exp + 1, frac |-> NoFraction]
             ELSE [sign |-> sign, exp |-> exp, frac |-> IncFraction(frac)]

\* float(n) for an integer n, |n| < Base: exact
FloatOfInt(n) ==
    IF n = 0 THEN FloatZero
    ELSE LET e == BitLen(Abs(n)) - 1
         IN  [sign |-> Sign(n), exp |-> e,
              frac |-> <<(Abs(n) - 2^e) * 2^(13 - e), 0, 0, 0>>]

\* long division: the next n digits of rem / d (rem < d), and the remainder
\* left after them
RECURSIVE DivDigits(_, _, _)
DivDigits(rem, d, n) ==
    IF n = 0 THEN [quot |-> <<>>, left |-> rem]
    ELSE LET next == DivDigits((rem * Base) % d, d, n - 1)
         IN  [quot |-> <<(rem * Base) \div d>> \o next.quot,
              left |-> next.left]

\* the scaling of a / b into [1, 2): x / y = (a / b) / 2^exp, y <= x < 2y
RECURSIVE Normalise(_, _, _)
Normalise(x, y, exp) ==
    IF x < y THEN Normalise(2 * x, y, exp - 1)
    ELSE IF x >= 2 * y THEN Normalise(x, 2 * y, exp + 1)
    ELSE [x |-> x, y |-> y, exp |-> exp]

\* a / b for floats of integral value a and b, b # 0
FloatDiv(a, b) ==
    IF a = 0 THEN FloatZero
    ELSE LET n     == Normalise(Abs(a), Abs(b), 0)
             q     == DivDigits(n.x - n.y, n.y, Len(NoFraction))
             guard == IF 2 * q.left >= n.y THEN 1 ELSE 0
         IN  RoundNearestEven(Sign(a) * Sign(b), n.exp, q.quot, guard,
                              2 * q.left - guard * n.y # 0)

\* frac * k + carry, digit by digit from the last: the digits of the product
\* below the binary point, and what carries above it
RECURSIVE MulDigits(_, _, _)
MulDigits(frac, k, carry) ==
    IF frac = <<>> THEN [digits |-> <<>>, over |-> carry]
    ELSE LET n    == Len(frac)
             s    == frac[n] * k + carry
             next == MulDigits(SubSeq(frac, 1, n - 1), k, s \div Base)
         IN  [digits |-> Append(next.digits, s % Base), over |-> next.over]

\* f * k for a float f and a float of integral value k, 0 < |k| < Base
FloatMul(f, k) ==
    IF f.sign = 0 \/ k = 0 THEN FloatZero
    ELSE LET p     == MulDigits(f.frac, Abs(k), 0)
             whole == Abs(k) + p.over          \* 1.frac * k = whole.digits
             shift == BitLen(whole) - 1        \* whole = 1.xxx * 2^shift
             all   == <<whole>> \o p.digits
             frac  == [i \in 1..Len(p.digits) |->
                          (all[i] % 2^shift) * (Base \div 2^shift)
                          + all[i + 1] \div 2^shift]
             lost  == all[Len(all)] % 2^shift
             guard == IF shift = 0 THEN 0 ELSE lost \div 2^(shift - 1)
             rest  == shift > 0 /\ lost % 2^(shift - 1) # 0
         IN  RoundNearestEven(f.sign * Sign(k), f.exp + shift, frac, guard, rest)

FloatAbs(f) == [f EXCEPT !.sign = Abs(f.sign)]

\* magnitude comparison of two nonzero floats: -1, 0 or 1
MagCmp(f, g) ==
    IF f.exp # g.exp THEN (IF f.exp < g.exp THEN -1 ELSE 1)
    ELSE LET D == {i \in 1..Len(f.frac) : f.frac[i] # g.frac[i]}
         IN  IF D = {} THEN 0
             ELSE LET i == CHOOSE d \in D : \A j \in D : d <= j
                  IN  IF f.frac[i] < g.frac[i] THEN -1 ELSE 1

\* comparison of two floats: -1 (f < g), 0 (f = g) or 1 (f > g)
FloatCmp(f, g) ==
    IF f.sign # g.sign THEN (IF f.sign < g.sign THEN -1 ELSE 1)
    ELSE IF f.sign = 0 THEN 0
    ELSE f.sign * MagCmp(f, g)

FloatLeq(f, g) == FloatCmp(f, g) <= 0

FloatGt(f, g) == FloatCmp(f, g) > 0

----------
(* Python values of the model.                                             *)

\* A value that may be None is a sequence of at most one element: None is
\* the empty one, and Some(v) holds the value v.
None == <<>>

Some(v) == <<v>>

The(opt) == opt[1]

\* A string is a sequence of one-character strings, so that strip() and
\* upper() are computed and not assumed.
Whitespace == {" "}

LowerCase == <<"a", "b", "c", "d", "e", "f", "g", "h", "i", "j", "k", "l", "m",
              "n", "o", "p", "q", "r", "s", "t", "u", "v", "w", "x", "y", "z">>

UpperCase == <<"A", "B", "C", "D", "E", "F", "G", "H", "I", "J", "K", "L", "M",
              "N", "O", "P", "Q", "R", "S", "T", "U", "V", "W", "X", "Y", "Z">>

\* str.upper() on one character
UpperChar(c) ==
    IF \E i \in 1..Len(LowerCase) : LowerCase[i] = c
    THEN UpperCase[CHOOSE i \in 1..Len(LowerCase) : LowerCase[i] = c]
    ELSE c

\* str.upper()
upper(str) == [i \in 1..Len(str) |-> UpperChar(str[i])]

\* str.lower() on one character
LowerChar(c) ==
    IF \E i \in 1..Len(UpperCase) : UpperCase[i] = c
    THEN LowerCase[CHOOSE i \in 1..Len(UpperCase) : UpperCase[i] = c]
    ELSE c

\* str.lower()
lower(str) == [i \in 1..Len(str) |-> LowerChar(str[i])]

\* str.strip(): leading and trailing whitespace removed
strip(str) ==
    LET kept == {i \in 1..Len(str) : str[i] \notin Whitespace}
    IN  IF kept = {} THEN <<>>
        ELSE LET first == CHOOSE i \in kept : \A j \in kept : i <= j
                 last  == CHOOSE i \in kept : \A j \in kept : j <= i
             IN  SubSeq(str, first, last)

\* A dict is the sequence of its <<key, value>> items in insertion order.
DictKeys(d) == {d[i][1] : i \in 1..Len(d)}

\* DictPut that keeps every pair, as a list of pairs would
DictPut_KeepAll(d, k, v) == Append(d, <<k, v>>)

\* DictPut that puts an old key at the end, as deleting and inserting would
DictPut_MoveToEnd(d, k, v) ==
    Append(SelectSeq(d, LAMBDA e : e[1] # k), <<k, v>>)

\* d[k] = v: a new key goes to the end, an old key keeps its place and
\* takes the new value
DictPut(d, k, v) ==
    IF k \in DictKeys(d)
    THEN [i \in 1..Len(d) |-> IF d[i][1] = k THEN <<k, v>> ELSE d[i]]
    ELSE Append(d, <<k, v>>)

\* d[k] for a key of d
DictGet(d, k) == d[CHOOSE i \in 1..Len(d) : d[i][1] = k][2]

\* st.session_state.get(key, default)
SessionGet(state, key, default) ==
    IF key \in DOMAIN state THEN state[key] ELSE default

----------------------------------------------------------------------------
(* InventoryAnalyzer.analyze_inventory                                     *)

StatusWithin == "Within Norms"

StatusExcess == "Excess Inventory"

StatusShort == "Short Inventory"

\* the key of the lookup dictionaries
NormalizeKey(part_no) == upper(strip(part_no))

\* {str(item['Part_No']).strip().upper(): item for item in rows}
RECURSIVE LookupDict(_)
LookupDict(rows) ==
    IF rows = <<>> THEN <<>>
    ELSE LET n == Len(rows)
         IN  DictPut(LookupDict(SubSeq(rows, 1, n - 1)),
                     NormalizeKey(rows[n].Part_No), rows[n])

\* the tolerance in force: the argument, or the session's admin tolerance
\* when the argument is None
EffectiveTolerance(tolerance, state) ==
    IF tolerance = None THEN SessionGet(state, "admin_tolerance", 30)
    ELSE The(tolerance)

\* variance_pct that divides whenever the norm is not zero
variance_pct_NonZeroNorm(current_qty, rm_qty) ==
    IF rm_qty # 0
    THEN FloatMul(FloatDiv(current_qty - rm_qty, rm_qty), 100)
    ELSE FloatZero

\* variance_pct as a ratio, not multiplied by 100
variance_pct_Ratio(current_qty, rm_qty) ==
    IF rm_qty > 0
    THEN FloatDiv(current_qty - rm_qty, rm_qty)
    ELSE FloatZero

\* variance_pct of one matched part
variance_pct(current_qty, rm_qty) ==
    IF rm_qty > 0
    THEN FloatMul(FloatDiv(current_qty - rm_qty, rm_qty), 100)
    ELSE FloatZero

\* StatusOf with an exclusive boundary: abs(variance_pct) < tolerance
StatusOf_ExclusiveBoundary(pct, tolerance) ==
    IF FloatCmp(FloatAbs(pct), FloatOfInt(tolerance)) < 0 THEN StatusWithin
    ELSE IF FloatGt(pct, FloatOfInt(tolerance)) THEN StatusExcess
    ELSE StatusShort

\* StatusOf that takes the magnitude in the second test as well
StatusOf_MagnitudeOnly(pct, tolerance) ==
    IF FloatLeq(FloatAbs(pct), FloatOfInt(tolerance)) THEN StatusWithin
    ELSE IF FloatGt(FloatAbs(pct), FloatOfInt(tolerance)) THEN StatusExcess
    ELSE StatusShort

\* StatusOf that takes the band for the outside: abs(variance_pct) >= tolerance
StatusOf_OutsideBand(pct, tolerance) ==
    IF FloatLeq(FloatOfInt(tolerance), FloatAbs(pct)) THEN StatusWithin
    ELSE IF FloatGt(pct, FloatOfInt(tolerance)) THEN StatusExcess
    ELSE StatusShort

\* the status of one matched part
StatusOf(pct, tolerance) ==
    IF FloatLeq(FloatAbs(pct), FloatOfInt(tolerance)) THEN StatusWithin
    ELSE IF FloatGt(pct, FloatOfInt(tolerance)) THEN StatusExcess
    ELSE StatusShort

\* ResultOf that values the current quantity, not the difference to the norm
ResultOf_ValueOfCurrent(part_no, inventory_item, pfep_item, tolerance) ==
    LET current_qty      == inventory_item.Current_QTY
        stock_value      == inventory_item.Stock_Value
        rm_qty           == pfep_item.RM_IN_QTY
        unit_price       == pfep_item.Unit_Price
        short_excess_qty == current_qty - rm_qty
        value            == current_qty * unit_price
        status           == StatusOf(variance_pct(current_qty, rm_qty), tolerance)
    IN  ("PART NO" :> part_no)
        @@ ("Current Inventory-QTY" :> current_qty)
        @@ ("Inventory Norms - QTY" :> rm_qty)
        @@ ("Current Inventory - VALUE" :> stock_value)
        @@ ("SHORT/EXCESS INVENTORY" :> short_excess_qty)
        @@ ("INVENTORY REMARK STATUS" :> status)
        @@ ("Status" :> status)
        @@ ("VALUE(Unit Price* Short/Excess Inventory)" :> value)
        @@ ("UNIT PRICE" :> unit_price)
        @@ ("Vendor Name" :> pfep_item.Vendor_Name)

\* the result record of one matched part
ResultOf(part_no, inventory_item, pfep_item, tolerance) ==
    LET current_qty      == inventory_item.Current_QTY
        stock_value      == inventory_item.Stock_Value
        rm_qty           == pfep_item.RM_IN_QTY
        unit_price       == pfep_item.Unit_Price
        short_excess_qty == current_qty - rm_qty
        value            == short_excess_qty * unit_price
        status           == StatusOf(variance_pct(current_qty, rm_qty), tolerance)
    IN  ("PART NO" :> part_no)
        @@ ("Current Inventory-QTY" :> current_qty)
        @@ ("Inventory Norms - QTY" :> rm_qty)
        @@ ("Current Inventory - VALUE" :> stock_value)
        @@ ("SHORT/EXCESS INVENTORY" :> short_excess_qty)
        @@ ("INVENTORY REMARK STATUS" :> status)
        @@ ("Status" :> status)
        @@ ("VALUE(Unit Price* Short/Excess Inventory)" :> value)
        @@ ("UNIT PRICE" :> unit_price)
        @@ ("Vendor Name" :> pfep_item.Vendor_Name)

analyze_inventory(pfep, inventory, tolerance, state) ==
    LET tol            == EffectiveTolerance(tolerance, state)
        pfep_dict      == LookupDict(pfep)
        inventory_dict == LookupDict(inventory)
        matched        == SelectSeq(inventory_dict,
                              LAMBDA e : e[1] \in DictKeys(pfep_dict))
    IN  [i \in 1..Len(matched) |->
            ResultOf(matched[i][1], matched[i][2],
                     DictGet(pfep_dict, matched[i][1]), tol)]

----------------------------------------------------------------------------
(* The summary dashboard of display_analysis_results and                   *)
(* InventoryAnalyzer.get_vendor_summary                                    *)

\* the columns of pd.DataFrame(records): the keys of the records
Columns(records) == UNION {DOMAIN records[i] : i \in 1..Len(records)}

\* df[df[column] == value][field].sum()
RECURSIVE SumWhere(_, _, _, _)
SumWhere(records, column, value, field) ==
    IF records = <<>> THEN 0
    ELSE LET n == Len(records)
         IN  SumWhere(SubSeq(records, 1, n - 1), column, value, field)
             + (IF records[n][column] = value THEN records[n][field] ELSE 0)

\* Counter(df[column])[value]
CountWhere(records, column, value) ==
    Cardinality({i \in 1..Len(records) : records[i][column] = value})

\* summary_data_of that counts the distinct statuses, not the records
summary_data_of_DistinctStatuses(processed_data) ==
    [status \in {processed_data[i]["Status"] : i \in 1..Len(processed_data)} |->
        [count |-> 1,
         value |-> IF "Stock_Value" \in Columns(processed_data)
                   THEN SumWhere(processed_data, "Status", status, "Stock_Value")
                   ELSE 0]]

\* summary_data: for each status among the records, its count and value
summary_data_of(processed_data) ==
    [status \in {processed_data[i]["Status"] : i \in 1..Len(processed_data)} |->
        [count |-> CountWhere(processed_data, "Status", status),
         value |-> IF "Stock_Value" \in Columns(processed_data)
                   THEN SumWhere(processed_data, "Status", status, "Stock_Value")
                   ELSE 0]]

\* sum(data['value'] for data in summary_data.values())
RECURSIVE SumValues(_, _)
SumValues(summary, statuses) ==
    IF statuses = {} THEN 0
    ELSE LET st == CHOOSE x \in statuses : TRUE
         IN  summary[st].value + SumValues(summary, statuses \ {st})

total_value_of(summary) == SumValues(summary, DOMAIN summary)

\* summary_data.get(status, {'count': 0})['count'], as the metric cards show it
ShownCount(summary, status) ==
    IF status \in DOMAIN summary THEN summary[status].count ELSE 0

\* summary_data.get(status, {'value': 0})['value']
ShownValue(summary, status) ==
    IF status \in DOMAIN summary THEN summary[status].value ELSE 0

\* item.get('Stock_Value') or item.get('Current Inventory - VALUE') or 0
ItemStockValue(item) ==
    IF "Stock_Value" \in DOMAIN item /\ item["Stock_Value"] # 0
    THEN item["Stock_Value"]
    ELSE IF "Current Inventory - VALUE" \in DOMAIN item
         THEN item["Current Inventory - VALUE"]
         ELSE 0

\* the defaultdict entry of a vendor not seen before
NewVendorEntry ==
    [total_parts |-> 0, short_parts |-> 0, excess_parts |-> 0,
     normal_parts |-> 0, total_value |-> 0]

\* one pass of the loop body of get_vendor_summary over item
VendorStep(summary, item) ==
    LET vendor == item["Vendor Name"]
        status == item["INVENTORY REMARK STATUS"]
        old    == IF vendor \in DOMAIN summary THEN summary[vendor]
                  ELSE NewVendorEntry
        new    == [total_parts  |-> old.total_parts + 1,
                   total_value  |-> old.total_value + ItemStockValue(item),
                   short_parts  |-> old.short_parts
                                    + (IF status = "Short Norms" THEN 1 ELSE 0),
                   excess_parts |-> old.excess_parts
                                    + (IF status = "Excess Norms" THEN 1 ELSE 0),
                   normal_parts |-> old.normal_parts
                                    + (IF status = "Within Norms" THEN 1 ELSE 0)]
    IN  (vendor :> new) @@ summary

\* The return statement stands inside the loop body: the function returns
\* the summary after the first item, and None (no return statement is
\* reached) for an empty list.
get_vendor_summary(processed_data) ==
    IF processed_data = <<>> THEN None
    ELSE Some(VendorStep(<<>>, processed_data[1]))

----------------------------------------------------------------------------
(* Inputs                                                                  *)

\* the longest table of the model
MaxRows == 2

\* rows of the pfep_data argument: part number, norm quantity, unit price,
\* vendor
MasterRows ==
    { [Part_No |-> <<"A", "1">>, RM_IN_QTY |-> 10, Unit_Price |-> 5,
       Vendor_Name |-> "Vendor_A"],
      [Part_No |-> <<" ", "a", "1">>, RM_IN_QTY |-> 0, Unit_Price |-> 0,
       Vendor_Name |-> "Vendor_B"],
      [Part_No |-> <<"B", "2">>, RM_IN_QTY |-> 10, Unit_Price |-> 2,
       Vendor_Name |-> "Vendor_B"],
      [Part_No |-> <<"b", "2", " ">>, RM_IN_QTY |-> -4, Unit_Price |-> 5,
       Vendor_Name |-> "Vendor_A"] }

\* rows of the current_inventory argument: part number, current quantity,
\* stock value
SnapshotRows ==
    { [Part_No |-> <<"A", "1">>, Current_QTY |-> 15, Stock_Value |-> 75],
      [Part_No |-> <<"a", "1", " ">>, Current_QTY |-> 6, Stock_Value |-> 30],
      [Part_No |-> <<"A", "1">>, Current_QTY |-> 13, Stock_Value |-> 65],
      [Part_No |-> <<" ", "b", "2">>, Current_QTY |-> 7, Stock_Value |-> 35] }

\* the tables of at most MaxRows rows
Tables(rows) == UNION {[1..n -> rows] : n \in 0..MaxRows}

\* the tolerance argument of a call: left out, or given
ToleranceArgs == {None, Some(0), Some(30)}

\* the options of the admin's tolerance selectbox that the model tries
ToleranceOptions == {10}

\* st.session_state after initialize_session_state
InitialSessionState ==
    [user_role                   |-> None,
     user_preferences            |-> [default_tolerance |-> 30,
                                      chart_theme |-> "plotly"],
     persistent_pfep_data        |-> None,
     persistent_pfep_locked      |-> None,
     persistent_inventory_data   |-> None,
     persistent_inventory_locked |-> None,
     persistent_analysis_results |-> None]

\* st.session_state[key] = value
SessionSet(state, key, value) == (key :> value) @@ state

\* DataPersistence.load_data_from_session_state: the data saved under key,
\* None when nothing is saved
load_data_from_session_state(state, key) ==
    IF key \in DOMAIN state /\ state[key] # None
    THEN Some(The(state[key]).data)
    ELSE None

\* the truth value of a loaded list: None and the empty list are false
Truthy(loaded) == loaded # None /\ The(loaded) # <<>>

----------------------------------------------------------------------------
(* The calls: a master table and a snapshot table are drawn, and the       *)
(* classifier and the aggregations are applied to them while the session   *)
(* state changes.                                                          *)

VARIABLES
    pfep_data,          \* the master table passed to analyze_inventory
    current_inventory,  \* the snapshot table passed to analyze_inventory
    tolerance,          \* the tolerance argument of the last call
    session_state,      \* st.session_state
    analysis_results,   \* what the last call of analyze_inventory returned
    summary_data,       \* the status summary of the dashboard shown
    total_value,        \* its total value
    vendor_summary,     \* what get_vendor_summary returned for it
    chart_request,      \* the top-parts chart asked for last
    top_items,          \* the outcome of that chart's ranking
    raw_value,          \* a value passed to safe_float_convert
    converted,          \* the outcome of safe_float_convert(raw_value)
    upload,             \* the table (DataFrame) passed to a standardizer
    standardizer,       \* the name of the standardizer called on it
    mapped_columns,     \* the mapped_columns that the standardizer built
    errors_shown,       \* the messages that it passed to st.error
    standardized,       \* the outcome of the standardizer
    validation          \* the last call of validate_inventory_against_pfep

\* the variables of the classifier and of the summary dashboard
classifier_vars == <<pfep_data, current_inventory, tolerance, session_state,
                     analysis_results, summary_data, total_value,
                     vendor_summary>>

\* the variables of the top-parts charts
chart_vars == <<chart_request, top_items>>

\* the variables of the numeric conversion
convert_vars == <<raw_value, converted>>

\* the variables of the standardizers
standardize_vars == <<upload, standardizer, mapped_columns, errors_shown,
                      standardized>>

\* no table passed to the classifier and nothing computed from one
ClassifierIdle ==
    /\ pfep_data = <<>>
    /\ current_inventory = <<>>
    /\ tolerance = None
    /\ session_state = InitialSessionState
    /\ analysis_results = None
    /\ summary_data = None
    /\ total_value = None
    /\ vendor_summary = None

ChartIdle == chart_request = None /\ top_items = None

ConvertIdle == raw_value = None /\ converted = None

StandardizeIdle ==
    /\ upload = None
    /\ standardizer = None
    /\ mapped_columns = None
    /\ errors_shown = <<>>
    /\ standardized = None

\* the variable of the pages, beside st.session_state
page_vars == <<validation>>

PageIdle == validation = None

\* the variables that the calls of the classifier leave alone
other_vars == <<chart_vars, convert_vars, standardize_vars, page_vars>>

OtherIdle == ChartIdle /\ ConvertIdle /\ StandardizeIdle /\ PageIdle

\* the variables that the charts leave alone
beside_chart_vars ==
    <<classifier_vars, convert_vars, standardize_vars, page_vars>>

\* the variables that the numeric conversion leaves alone
beside_convert_vars ==
    <<classifier_vars, chart_vars, standardize_vars, page_vars>>

\* the variables that the standardizers leave alone
beside_standardize_vars ==
    <<classifier_vars, chart_vars, convert_vars, page_vars>>

\* the variables that the pages leave alone: all but st.session_state and
\* the validation
beside_page_vars ==
    <<pfep_data, current_inventory, tolerance, analysis_results, summary_data,
      total_value, vendor_summary, chart_vars, convert_vars,
      standardize_vars>>

vars == <<classifier_vars, other_vars>>

Init ==
    /\ pfep_data \in Tables(MasterRows)
    /\ current_inventory \in Tables(SnapshotRows)
    /\ tolerance = None
    /\ session_state = InitialSessionState
    /\ analysis_results = None
    /\ summary_data = None
    /\ total_value = None
    /\ vendor_summary = None
    /\ OtherIdle

\* a call of analyze_inventory that leaves its tolerance in the session
AnalyzeInventory_StoresTolerance(t) ==
    /\ analysis_results' =
           Some(analyze_inventory(pfep_data, current_inventory, t, session_state))
    /\ tolerance' = t
    /\ session_state' = SessionSet(session_state, "admin_tolerance",
                                   EffectiveTolerance(t, session_state))
    /\ summary_data' = None
    /\ total_value' = None
    /\ vendor_summary' = None
    /\ UNCHANGED <<pfep_data, current_inventory, other_vars>>

\* analysis_results = analyze_inventory(pfep_data, current_inventory, t)
AnalyzeInventory(t) ==
    /\ analysis_results' =
           Some(analyze_inventory(pfep_data, current_inventory, t, session_state))
    /\ tolerance' = t
    /\ summary_data' = None
    /\ total_value' = None
    /\ vendor_summary' = None
    /\ UNCHANGED <<pfep_data, current_inventory, session_state, other_vars>>

\* The admin picks another tolerance in the selectbox of
\* admin_data_management: the handler stores it, clears the stored results
\* and the inventory lock and, when the session holds both tables, analyzes
\* them again with the new tolerance.
SetAdminTolerance(new_tolerance) ==
    /\ SessionGet(session_state, "admin_tolerance", 30) # new_tolerance
    /\ LET cleared ==
               SessionSet(SessionSet(SessionSet(session_state,
                   "admin_tolerance", new_tolerance),
                   "persistent_analysis_results", None),
                   "persistent_inventory_locked", Some(FALSE))
           inventory_data == load_data_from_session_state(cleared,
                                 "persistent_inventory_data")
           stored_pfep    == load_data_from_session_state(cleared,
                                 "persistent_pfep_data")
       IN  session_state' =
               IF Truthy(inventory_data) /\ Truthy(stored_pfep)
               THEN SessionSet(SessionSet(cleared,
                        "persistent_analysis_results",
                        Some([data |-> analyze_inventory(The(stored_pfep),
                                           The(inventory_data),
                                           Some(new_tolerance), cleared)])),
                        "persistent_inventory_locked", Some(TRUE))
               ELSE cleared
    /\ UNCHANGED <<pfep_data, current_inventory, tolerance, analysis_results,
                   summary_data, total_value, vendor_summary, other_vars>>

\* the summary dashboard over the stored results
DisplaySummary ==
    /\ analysis_results # None
    /\ The(analysis_results) # <<>>
    /\ summary_data = None
    /\ LET processed_data == The(analysis_results)
       IN  /\ summary_data' = Some(summary_data_of(processed_data))
           /\ total_value' = Some(total_value_of(summary_data_of(processed_data)))
           /\ vendor_summary' = get_vendor_summary(processed_data)
    /\ UNCHANGED <<pfep_data, current_inventory, tolerance, session_state,
                   analysis_results, other_vars>>

Next ==
    \/ \E t \in ToleranceArgs : AnalyzeInventory(t)
    \/ \E v \in ToleranceOptions : SetAdminTolerance(v)
    \/ DisplaySummary

Spec == Init /\ [][Next]_vars

----------------------------------------------------------------------------
(* Properties of the classifier                                            *)

Records(results) == {results[i] : i \in 1..Len(results)}

CurrentQty(rec) == rec["Current Inventory-QTY"]

NormQty(rec) == rec["Inventory Norms - QTY"]

\* the variance percentage the classifier computes for a record
VariancePct(rec) == variance_pct(CurrentQty(rec), NormQty(rec))

HasStatus(rec, status) ==
    rec["Status"] = status /\ rec["INVENTORY REMARK STATUS"] = status

\* C1: the tolerance boundary is inclusive. In every call with a tolerance
\* t >= 0, every returned record with a norm quantity > 0 whose variance
\* percentage v satisfies abs(v) <= t (v = t and v = -t included) has the
\* status Within Norms.
BoundaryInclusive(results, t) ==
    \A rec \in Records(results) :
        NormQty(rec) > 0 /\ FloatLeq(FloatAbs(VariancePct(rec)), FloatOfInt(t))
            => HasStatus(rec, StatusWithin)

C1_ToleranceBoundaryInclusive ==
    [][\A t \in ToleranceArgs :
           tolerance' = t /\ AnalyzeInventory(t) =>
               BoundaryInclusive(The(analysis_results'),
                                 EffectiveTolerance(t, session_state))]_vars

\* a call with tolerance 30 has returned a record at exactly +30 % and a
\* record at exactly -30 %, both Within Norms
C1_Witness ==
    /\ analysis_results # None
    /\ tolerance = Some(30)
    /\ \E a, b \in Records(The(analysis_results)) :
        /\ NormQty(a) > 0 /\ VariancePct(a) = FloatOfInt(30)
        /\ NormQty(b) > 0 /\ VariancePct(b) = FloatOfInt(-30)
        /\ HasStatus(a, StatusWithin) /\ HasStatus(b, StatusWithin)

\* C2: every record carries exactly one status of the closed set of three,
\* and for a tolerance t >= 0 it is Excess Inventory exactly when the
\* variance percentage is > t and Short Inventory exactly when it is < -t.
StatusFollowsVariance(results, t) ==
    \A rec \in Records(results) :
        LET pct == VariancePct(rec)
        IN  /\ rec["Status"] \in {StatusWithin, StatusExcess, StatusShort}
            /\ rec["INVENTORY REMARK STATUS"] = rec["Status"]
            /\ HasStatus(rec, StatusExcess) <=> FloatGt(pct, FloatOfInt(t))
            /\ HasStatus(rec, StatusShort) <=> FloatGt(FloatOfInt(-t), pct)

C2_StatusFollowsVariance ==
    [][\A t \in ToleranceArgs :
           tolerance' = t /\ AnalyzeInventory(t) =>
               StatusFollowsVariance(The(analysis_results'),
                                     EffectiveTolerance(t, session_state))]_vars

\* one call has returned an Excess record and a Short record
C2_Witness ==
    /\ analysis_results # None
    /\ \E a, b \in Records(The(analysis_results)) :
        HasStatus(a, StatusExcess) /\ HasStatus(b, StatusShort)

\* C3: zero-norm policy. Every returned record whose norm quantity is <= 0
\* has variance percentage 0 and the status Within Norms, whatever its
\* current quantity and whatever the tolerance >= 0.
C3_ZeroNormWithinNorms ==
    analysis_results # None =>
        \A rec \in Records(The(analysis_results)) :
            NormQty(rec) <= 0 =>
                VariancePct(rec) = FloatZero /\ HasStatus(rec, StatusWithin)

\* a call with tolerance 0 has returned a record with a negative norm and a
\* record with norm 0, whose current quantities are far from the norm
C3_Witness ==
    /\ analysis_results # None
    /\ tolerance = Some(0)
    /\ \E a, b \in Records(The(analysis_results)) :
        /\ NormQty(a) < 0 /\ CurrentQty(a) > 0
        /\ NormQty(b) = 0 /\ CurrentQty(b) > 0
        /\ HasStatus(a, StatusWithin) /\ HasStatus(b, StatusWithin)

NormalizedKeys(rows) == {NormalizeKey(rows[i].Part_No) : i \in 1..Len(rows)}

\* C4: join exclusivity. The part key of every returned record occurs, after
\* normalization, in the master table and in the snapshot table, and there
\* are at most min(len(master), len(snapshot)) records.
C4_JoinExclusivity ==
    analysis_results # None =>
        /\ \A rec \in Records(The(analysis_results)) :
               rec["PART NO"] \in NormalizedKeys(pfep_data)
                                  \cap NormalizedKeys(current_inventory)
        /\ Len(The(analysis_results)) <= Len(pfep_data)
        /\ Len(The(analysis_results)) <= Len(current_inventory)

\* a call has returned a record for one snapshot row and none for another,
\* whose key the master table does not hold
C4_Witness ==
    /\ analysis_results # None
    /\ Len(The(analysis_results)) = 1
    /\ Len(current_inventory) = 2
    /\ NormalizedKeys(current_inventory) \ NormalizedKeys(pfep_data) # {}

\* C5: classification is pure. Calling analyze_inventory again with the
\* arguments of the last call returns what the last call returned, whatever
\* the session state has become since.
C5_SameInputsSameOutput ==
    analysis_results # None =>
        The(analysis_results)
            = analyze_inventory(pfep_data, current_inventory, tolerance,
                                session_state)

UnitPrice(rec) == rec["UNIT PRICE"]

VarianceAbsolute(rec) == rec["SHORT/EXCESS INVENTORY"]

VarianceValue(rec) == rec["VALUE(Unit Price* Short/Excess Inventory)"]

\* C6: for every returned record the absolute variance is current quantity
\* minus norm quantity and the variance value is that difference times the
\* unit price; with a unit price >= 0 the variance value is >= 0 for an
\* Excess record and <= 0 for a Short record.
C6_VarianceValueSign ==
    analysis_results # None =>
        \A rec \in Records(The(analysis_results)) :
            /\ VarianceAbsolute(rec) = CurrentQty(rec) - NormQty(rec)
            /\ VarianceValue(rec)
                   = (CurrentQty(rec) - NormQty(rec)) * UnitPrice(rec)
            /\ UnitPrice(rec) >= 0 /\ HasStatus(rec, StatusExcess)
                   => VarianceValue(rec) >= 0
            /\ UnitPrice(rec) >= 0 /\ HasStatus(rec, StatusShort)
                   => VarianceValue(rec) <= 0

\* one call has returned an Excess record of positive variance value and a
\* Short record of negative variance value
C6_Witness ==
    /\ analysis_results # None
    /\ \E a, b \in Records(The(analysis_results)) :
        /\ HasStatus(a, StatusExcess) /\ VarianceValue(a) > 0
        /\ HasStatus(b, StatusShort) /\ VarianceValue(b) < 0

\* the record of a part with norm 10 and unit price 5 at the current
\* quantity cur has the variance percentage pct, the status and the
\* variance value given
Scenario(rec, cur, pct, status, value) ==
    NormQty(rec) = 10 /\ UnitPrice(rec) = 5 /\ CurrentQty(rec) = cur
        => /\ VariancePct(rec) = FloatOfInt(pct)
           /\ HasStatus(rec, status)
           /\ VarianceValue(rec) = value

VarianceFormula(results, t) ==
    \A rec \in Records(results) :
        /\ NormQty(rec) > 0 =>
               LET pct == FloatMul(FloatDiv(CurrentQty(rec) - NormQty(rec),
                                           NormQty(rec)), 100)
               IN  /\ VariancePct(rec) = pct
                   /\ HasStatus(rec, StatusOf(pct, t))
        /\ t = 30 =>
               /\ Scenario(rec, 15, 50, StatusExcess, 25)
               /\ Scenario(rec, 6, -40, StatusShort, -20)
               /\ Scenario(rec, 13, 30, StatusWithin, 15)

\* C7: for every returned record with a norm quantity > 0 the variance
\* percentage is ((current - norm) / norm) * 100. With norm 10, unit price 5
\* and tolerance 30: current 15 gives 50, Excess Inventory and variance
\* value 25; current 6 gives -40 and Short Inventory; current 13 gives 30
\* and Within Norms.
C7_VariancePercentFormula ==
    [][\A t \in ToleranceArgs :
           tolerance' = t /\ AnalyzeInventory(t) =>
               VarianceFormula(The(analysis_results'),
                               EffectiveTolerance(t, session_state))]_vars

\* a call with tolerance 30 has returned the record of norm 10, unit price 5
\* and current quantity 15: Excess Inventory, variance value 25
C7_Witness ==
    /\ analysis_results # None
    /\ tolerance = Some(30)
    /\ \E rec \in Records(The(analysis_results)) :
        /\ NormQty(rec) = 10 /\ UnitPrice(rec) = 5 /\ CurrentQty(rec) = 15
        /\ HasStatus(rec, StatusExcess)
        /\ VarianceValue(rec) = 25

----------------------------------------------------------------------------
(* Properties of the aggregations                                          *)

Statuses == {StatusWithin, StatusExcess, StatusShort}

\* C8: the counts the status summary reports for the three statuses add up
\* to the number of records.
C8_StatusCountsSumToTotal ==
    summary_data # None =>
        ShownCount(The(summary_data), StatusWithin)
        + ShownCount(The(summary_data), StatusExcess)
        + ShownCount(The(summary_data), StatusShort)
            = Len(The(analysis_results))

\* the summary of two records of one status has been computed
C8_Witness ==
    /\ summary_data # None
    /\ Len(The(analysis_results)) = 2
    /\ \E status \in Statuses : ShownCount(The(summary_data), status) = 2

\* the stock value of the records that have the status
StockValueOf(results, status) ==
    SumWhere(results, "Status", status, "Current Inventory - VALUE")

\* C9: the status summary reports for each status the sum of the stock
\* values of the records of that status, and as total value the sum of the
\* stock values of all records.
C9_StatusValuesAreSums ==
    summary_data # None =>
        /\ \A status \in Statuses :
               ShownValue(The(summary_data), status)
                   = StockValueOf(The(analysis_results), status)
        /\ The(total_value)
               = StockValueOf(The(analysis_results), StatusWithin)
                 + StockValueOf(The(analysis_results), StatusExcess)
                 + StockValueOf(The(analysis_results), StatusShort)

VendorsOf(results) == {rec["Vendor Name"] : rec \in Records(results)}

RECURSIVE SumTotalParts(_, _)
SumTotalParts(summary, vendors) ==
    IF vendors = {} THEN 0
    ELSE LET v == CHOOSE x \in vendors : TRUE
         IN  summary[v].total_parts + SumTotalParts(summary, vendors \ {v})

\* C10: the vendor summary has one entry for each distinct vendor of the
\* records; an entry's total_parts is the number of that vendor's records
\* and equals its within + excess + short counts; the entries' total_parts
\* add up to the number of records.
C10_VendorSummaryPartition ==
    vendor_summary # None =>
        LET summary == The(vendor_summary)
            results == The(analysis_results)
        IN  /\ DOMAIN summary = VendorsOf(results)
            /\ \A v \in DOMAIN summary :
                   /\ summary[v].total_parts
                          = CountWhere(results, "Vendor Name", v)
                   /\ summary[v].total_parts
                          = summary[v].normal_parts
                            + summary[v].excess_parts
                            + summary[v].short_parts
            /\ SumTotalParts(summary, DOMAIN summary) = Len(results)

----------------------------------------------------------------------------
(* The top-parts charts of display_analysis_results                        *)

\* the outcome of a call: the value it returned, or the exception it raised
Returned(value) == [raised |-> "", value |-> value]

Raised(exception) == [raised |-> exception, value |-> None]

\* the key of the rankings: abs(item['VALUE(Unit Price* Short/Excess Inventory)'])
AbsValue(item) == Abs(item["VALUE(Unit Price* Short/Excess Inventory)"])

\* one step of sorted(..., reverse=True): item goes behind every element
\* whose key is at least its own, so that equal keys keep their order
RECURSIVE InsertByAbsValue(_, _)
InsertByAbsValue(sorted, item) ==
    IF sorted = <<>> THEN <<item>>
    ELSE IF AbsValue(Head(sorted)) >= AbsValue(item)
         THEN <<Head(sorted)>> \o InsertByAbsValue(Tail(sorted), item)
         ELSE <<item>> \o sorted

\* sorted(items, key=lambda x: abs(x['VALUE(...)']), reverse=True)
RECURSIVE SortedByAbsValue(_)
SortedByAbsValue(items) ==
    IF items = <<>> THEN <<>>
    ELSE InsertByAbsValue(SortedByAbsValue(SubSeq(items, 1, Len(items) - 1)),
                          items[Len(items)])

\* the number of bars of a chart
TopLimit == 10

\* items[:n]
Slice(items, n) == SubSeq(items, 1, IF Len(items) < n THEN Len(items) ELSE n)

\* The top_items of create_top_parts_chart.  The filter of line 344 compares
\* the status with the name status_typ, which is bound nowhere (the
\* parameter is status_type): evaluating the condition for the first item
\* raises NameError.
create_top_parts_chart(data, status_type) ==
    IF data # <<>> THEN Raised("NameError")
    ELSE Returned(Slice(SortedByAbsValue(<<>>), TopLimit))

\* the top_parts of the chart "Top 10 Short/Excess Parts by Value"
top_short_excess_parts(processed_data) ==
    LET filtered ==
            SelectSeq(processed_data,
                      LAMBDA item : item["INVENTORY REMARK STATUS"]
                                        \in {"Short Norms", "Excess Norms"})
    IN  Returned(Slice(SortedByAbsValue(filtered), TopLimit))

\* the request of the chart of short and excess parts
ShortExcessRequest == "Short/Excess"

\* the tolerances of the analyses whose results the charts show
ChartTolerances == {Some(0), Some(30)}

\* the stored results of an analysis, no chart drawn yet
ChartInit ==
    /\ pfep_data \in Tables(MasterRows)
    /\ current_inventory \in Tables(SnapshotRows)
    /\ tolerance \in ChartTolerances
    /\ session_state = InitialSessionState
    /\ analysis_results =
           Some(analyze_inventory(pfep_data, current_inventory, tolerance,
                                  session_state))
    /\ summary_data = None
    /\ total_value = None
    /\ vendor_summary = None
    /\ ChartIdle
    /\ ConvertIdle
    /\ StandardizeIdle
    /\ PageIdle

\* self.create_top_parts_chart(processed_data, status_type, ...)
CreateTopPartsChart(status_type) ==
    /\ chart_request' = Some(status_type)
    /\ top_items' = Some(create_top_parts_chart(The(analysis_results),
                                                 status_type))
    /\ UNCHANGED beside_chart_vars

\* the chart of the checkbox "Top 10 Short/Excess Parts by Value"
TopShortExcessChart ==
    /\ chart_request' = Some(ShortExcessRequest)
    /\ top_items' = Some(top_short_excess_parts(The(analysis_results)))
    /\ UNCHANGED beside_chart_vars

ChartNext ==
    \/ \E status_type \in {StatusExcess, StatusShort, StatusWithin} :
           CreateTopPartsChart(status_type)
    \/ TopShortExcessChart

ChartSpec == ChartInit /\ [][ChartNext]_vars

\* the statuses a chart is asked to rank
RequestedStatuses(request) ==
    IF request = ShortExcessRequest THEN {StatusShort, StatusExcess}
    ELSE {request}

\* the records with a status of the filter, by descending absolute value,
\* ties in original order, the first n of them
RankedTopN(records, statuses, n) ==
    Slice(SortedByAbsValue(
              SelectSeq(records,
                        LAMBDA item : item["INVENTORY REMARK STATUS"] \in statuses)),
          n)

\* C11: a top-N ranking returns the records whose status is in the
\* requested filter, sorted by descending absolute value with ties in
\* original order, truncated to n; its length is min(n, number of records
\* with a status of the filter).
C11_TopNRanking ==
    chart_request # None =>
        LET records  == The(analysis_results)
            statuses == RequestedStatuses(The(chart_request))
            matching == Cardinality({i \in 1..Len(records) :
                            records[i]["INVENTORY REMARK STATUS"] \in statuses})
        IN  /\ The(top_items) = Returned(RankedTopN(records, statuses, TopLimit))
            /\ Len(The(top_items).value)
                   = (IF matching < TopLimit THEN matching ELSE TopLimit)

----------------------------------------------------------------------------
(* InventoryManagementSystem.safe_float_convert                            *)
(*                                                                         *)
(* A string is a sequence of characters.  A float is held as the decimal   *)
(* number mant * 10^exp in lowest terms: the decimal literals of the model *)
(* have few digits, so two of them are the same float exactly if they are  *)
(* the same decimal number.                                                *)

\* the characters that the model names: the rupee sign and the euro sign
RupeeSign == "INR"

EuroSign == "EUR"

Digits == {"0", "1", "2", "3", "4", "5", "6", "7", "8", "9"}

DigitValue(c) == CHOOSE d \in 0..9 : ToString(d) = c

\* mant * 10^exp with the trailing zeros of mant moved into exp
RECURSIVE Number(_, _)
Number(mant, exp) ==
    IF mant = 0 THEN [mant |-> 0, exp |-> 0]
    ELSE IF mant % 10 = 0 THEN Number(mant \div 10, exp + 1)
    ELSE [mant |-> mant, exp |-> exp]

Zero == Number(0, 0)

Negate(number) == [number EXCEPT !.mant = -number.mant]

\* the inputs: a string, None, the missing-value sentinel NaN, an int
\* digit * 10^zeros, a float
StrValue(chars) == [type |-> "str", chars |-> chars]

NoneValue == [type |-> "NoneType"]

NaN == [type |-> "float", nan |-> TRUE]

IntValue(digit, zeros) == [type |-> "int", digit |-> digit, zeros |-> zeros]

FloatValue(number) == [type |-> "float", nan |-> FALSE, number |-> number]

IsString(value) == value.type = "str"

\* pd.isna(value) or value in ['', None]
IsMissing(value) ==
    IF IsString(value) THEN value.chars = <<>>
    ELSE \/ value.type = "NoneType"
         \/ value.type = "float" /\ value.nan

\* float(value) of an int or a float: an int beyond the largest float raises
\* OverflowError
FloatOfNumber(value) ==
    IF value.type = "float" THEN Returned(value.number)
    ELSE IF value.digit # 0
            /\ (value.zeros > 308 \/ (value.zeros = 308 /\ Abs(value.digit) > 1))
         THEN Raised("OverflowError")
         ELSE Returned(Number(value.digit, value.zeros))

\* str.replace(c, '') for every c of chars
Remove(str, chars) == SelectSeq(str, LAMBDA c : c \notin chars)

startswith(str, c) == str # <<>> /\ str[1] = c

endswith(str, c) == str # <<>> /\ str[Len(str)] = c

\* the digits of str read as a decimal integer
RECURSIVE DecimalOf(_)
DecimalOf(str) ==
    IF str = <<>> THEN 0
    ELSE 10 * DecimalOf(SubSeq(str, 1, Len(str) - 1)) + DigitValue(str[Len(str)])

\* the floats that are no decimal number: nan, and inf, whose sign is that
\* of mant
NotANumber == [mant |-> 0, exp |-> 0, special |-> "nan"]

Infinity == [mant |-> 1, exp |-> 0, special |-> "inf"]

\* the words that float(str) reads in any case of their letters
NanWords == { <<"n", "a", "n">> }

InfinityWords == { <<"i", "n", "f">>,
                   <<"i", "n", "f", "i", "n", "i", "t", "y">> }

\* float(str) of a string without whitespace, exponent and underscore: an
\* optional sign, then digits with at most one point and at least one
\* digit, or one of the words nan, inf and infinity; anything else raises
\* ValueError
ParseFloat(str) ==
    LET signed == startswith(str, "-") \/ startswith(str, "+")
        body   == IF signed THEN Tail(str) ELSE str
        points == {i \in 1..Len(body) : body[i] = "."}
        digits == Remove(body, {"."})
        signOf(number) == IF startswith(str, "-") THEN Negate(number)
                          ELSE number
    IN  IF /\ \A i \in 1..Len(body) : body[i] \in Digits \cup {"."}
           /\ Cardinality(points) <= 1
           /\ digits # <<>>
        THEN LET scale == IF points = {} THEN 0
                          ELSE Len(body) - (CHOOSE i \in points : TRUE)
             IN  Returned(signOf(Number(DecimalOf(digits), -scale)))
        ELSE IF lower(body) \in NanWords THEN Returned(NotANumber)
        ELSE IF lower(body) \in InfinityWords THEN Returned(signOf(Infinity))
        ELSE Raised("ValueError")

\* the characters that safe_float_convert removes from a string
Separators == {",", " ", RupeeSign, "$", EuroSign}

\* CleanString that leaves a trailing % in place
CleanString_KeepPercent(value) ==
    LET removed == Remove(strip(value.chars), Separators)
    IN  IF startswith(removed, "(") /\ endswith(removed, ")")
        THEN <<"-">> \o SubSeq(removed, 2, Len(removed) - 1)
        ELSE removed

\* the string that safe_float_convert passes to float()
CleanString(value) ==
    LET removed == Remove(strip(value.chars), Separators)
        no_pct  == IF endswith(removed, "%")
                   THEN SubSeq(removed, 1, Len(removed) - 1) ELSE removed
    IN  IF startswith(no_pct, "(") /\ endswith(no_pct, ")")
        THEN <<"-">> \o SubSeq(no_pct, 2, Len(no_pct) - 1)
        ELSE no_pct

\* safe_float_convert(value): ValueError and TypeError are caught and give
\* 0.0, any other exception leaves the function
safe_float_convert(value) ==
    IF IsMissing(value) THEN Returned(Zero)
    ELSE LET outcome == IF IsString(value) THEN ParseFloat(CleanString(value))
                        ELSE FloatOfNumber(value)
         IN  IF outcome.raised \in {"ValueError", "TypeError"}
             THEN Returned(Zero)
             ELSE outcome

\* the longest string of the strings tried exhaustively
MaxChars == 4

ConvertAlphabet == {"1", "5", ".", ",", " ", "%", "(", ")", "$", "-", "x"}

\* the strings of the examples
ExampleStrings ==
    { <<"(", "1", ",", "2", "3", "4", ".", "5", "0", ")">>,
      <<RupeeSign, "1", ",", "2", "3", "4", "%">>,
      <<"(", RupeeSign, "1", ",", "2", "3", "4", ")">>,
      <<"(", EuroSign, "1", "2", "%", ")">>,
      <<"(", "1", "2", ")", "%">> }

\* strings of the words that float() reads
WordStrings ==
    { <<"N", "a", "N">>, <<"-", "i", "n", "f">>,
      <<"(", "I", "n", "f", "i", "n", "i", "t", "y", ")">> }

ConvertStrings ==
    UNION {[1..n -> ConvertAlphabet] : n \in 0..MaxChars}
        \cup ExampleStrings \cup WordStrings

ConvertNumbers ==
    { NoneValue, NaN, IntValue(0, 0), IntValue(5, 0), IntValue(-3, 1),
      IntValue(1, 308), IntValue(1, 400), FloatValue(Number(15, -1)) }

ConvertInit ==
    /\ raw_value \in {Some(StrValue(chars)) : chars \in ConvertStrings}
                     \cup {Some(v) : v \in ConvertNumbers}
    /\ converted = None
    /\ ClassifierIdle
    /\ ChartIdle
    /\ StandardizeIdle
    /\ PageIdle

\* converted = self.safe_float_convert(raw_value)
SafeFloatConvert ==
    /\ converted = None
    /\ converted' = Some(safe_float_convert(The(raw_value)))
    /\ UNCHANGED <<raw_value, beside_convert_vars>>

ConvertNext == SafeFloatConvert

ConvertSpec == ConvertInit /\ [][ConvertNext]_vars

----------------------------------------------------------------------------
(* Properties of safe_float_convert                                        *)

\* the value converted and the outcome of its conversion
RawValue == The(raw_value)

Converted == The(converted)

\* C12: safe_float_convert is total. For every input (a number, a string,
\* the empty string, None, a missing-value sentinel) it returns a number
\* and raises nothing; a missing or empty input and a string that is not
\* numeric after cleanup give 0.0.
C12_SafeFloatConvertTotal ==
    converted # None =>
        /\ Converted.raised = ""
        /\ IsMissing(RawValue) => Converted.value = Zero
        /\ IsString(RawValue) /\ ParseFloat(CleanString(RawValue)).raised # ""
               => Converted.value = Zero

\* the string without surrounding whitespace, thousands separators, interior
\* spaces and currency symbols
Bare(value) == Remove(strip(value.chars), Separators)

\* str without a trailing %
DropPercent(str) ==
    IF endswith(str, "%") THEN SubSeq(str, 1, Len(str) - 1) ELSE str

\* str is a decimal number without a sign
UnsignedDecimal(str) ==
    /\ ~ startswith(str, "-")
    /\ ~ startswith(str, "+")
    /\ ParseFloat(str).raised = ""

\* str is ( enclosed ), and enclosed is what stands between the parentheses
Wrapped(str) == Len(str) >= 2 /\ startswith(str, "(") /\ endswith(str, ")")

Enclosed(str) == SubSeq(str, 2, Len(str) - 1)

\* a number, with separators and currency symbols and maybe a trailing %,
\* converts to that number
PlainNumberConverted ==
    LET number == DropPercent(Bare(RawValue))
    IN  ParseFloat(number).raised = ""
            => Converted = Returned(ParseFloat(number).value)

\* the examples "(1,234.50)" and "₹1,234%"
ExamplesConverted ==
    /\ RawValue = StrValue(<<"(", "1", ",", "2", "3", "4", ".", "5", "0", ")">>)
           => Converted = Returned(Number(-12345, -1))
    /\ RawValue = StrValue(<<RupeeSign, "1", ",", "2", "3", "4", "%">>)
           => Converted = Returned(Number(1234, 0))

PfepColumnMappings ==
    << <<"part_no",
          << <<"p", "a", "r", "t", "_", "n", "o">>,
             <<"p", "a", "r", "t", "_", "n", "u", "m", "b", "e", "r">>,
             <<"m", "a", "t", "e", "r", "i", "a", "l">>,
             <<"m", "a", "t", "e", "r", "i", "a", "l", "_", "c", "o", "d", "e">>,
             <<"i", "t", "e", "m", "_", "c", "o", "d", "e">>,
             <<"c", "o", "d", "e">>,
             <<"p", "a", "r", "t", " ", "n", "o">>,
             <<"p", "a", "r", "t", "n", "o">> >> >>,
       <<"description",
          << <<"d", "e", "s", "c", "r", "i", "p", "t", "i", "o", "n">>,
             <<"i", "t", "e", "m", "_", "d", "e", "s", "c", "r", "i", "p", "t", "i", "o", "n">>,
             <<"p", "a", "r", "t", "_", "d", "e", "s", "c", "r", "i", "p", "t", "i", "o", "n">>,
             <<"d", "e", "s", "c">>,
             <<"p", "a", "r", "t", " ", "d", "e", "s", "c", "r", "i", "p", "t", "i", "o", "n">>,
             <<"m", "a", "t", "e", "r", "i", "a", "l", "_", "d", "e", "s", "c", "r", "i", "p", "t", "i", "o", "n">>,
             <<"i", "t", "e", "m", " ", "d", "e", "s", "c">> >> >>,
       <<"rm_qty",
          << <<"r", "m", "_", "i", "n", "_", "q", "t", "y">>,
             <<"r", "m", "_", "q", "t", "y">>,
             <<"r", "e", "q", "u", "i", "r", "e", "d", "_", "q", "t", "y">>,
             <<"n", "o", "r", "m", "_", "q", "t", "y">>,
             <<"t", "a", "r", "g", "e", "t", "_", "q", "t", "y">>,
             <<"r", "m">>,
             <<"r", "i", "_", "i", "n", "_", "q", "t", "y">>,
             <<"r", "m", " ", "i", "n", " ", "q", "t", "y">> >> >>,
       <<"rm_days",
          << <<"r", "m", "_", "i", "n", "_", "d", "a", "y", "s">>,
             <<"r", "m", " ", "d", "a", "y", "s">>,
             <<"i", "n", "v", "e", "n", "t", "o", "r", "y", " ", "d", "a", "y", "s">>,
             <<"r", "m", "i", "n", "d", "a", "y", "s">> >> >>,
       <<"unit_price",
          << <<"u", "n", "i", "t", "_", "p", "r", "i", "c", "e">>,
             <<"p", "r", "i", "c", "e">>,
             <<"u", "n", "i", "t", " ", "c", "o", "s", "t">>,
             <<"u", "n", "i", "t", " ", "r", "a", "t", "e">>,
             <<"u", "n", "i", "t", "p", "r", "i", "c", "e">> >> >>,
       <<"vendor_code",
          << <<"v", "e", "n", "d", "o", "r", "_", "c", "o", "d", "e">>,
             <<"v", "e", "n", "d", "o", "r", "_", "i", "d">>,
             <<"s", "u", "p", "p", "l", "i", "e", "r", "_", "c", "o", "d", "e">>,
             <<"s", "u", "p", "p", "l", "i", "e", "r", "_", "i", "d">>,
             <<"v", "e", "n", "d", "o", "r", " ", "i", "d">>,
             <<"V", "e", "n", "d", "o", "r", " ", "C", "o", "d", "e">>,
             <<"v", "e", "n", "d", "o", "r", " ", "c", "o", "d", "e">> >> >>,
       <<"vendor_name",
          << <<"v", "e", "n", "d", "o", "r", "_", "n", "a", "m", "e">>,
             <<"v", "e", "n", "d", "o", "r">>,
             <<"s", "u", "p", "p", "l", "i", "e", "r", "_", "n", "a", "m", "e">>,
             <<"s", "u", "p", "p", "l", "i", "e", "r">>,
             <<"V", "e", "n", "d", "o", "r", " ", "N", "a", "m", "e">>,
             <<"v", "e", "n", "d", "o", "r", " ", "n", "a", "m", "e">> >> >>,
       <<"city",
          << <<"c", "i", "t", "y">>,
             <<"l", "o", "c", "a", "t", "i", "o", "n">>,
             <<"p", "l", "a", "c", "e">> >> >>,
       <<"state",
          << <<"s", "t", "a", "t", "e">>,
             <<"r", "e", "g", "i", "o", "n">>,
             <<"p", "r", "o", "v", "i", "n", "c", "e">> >> >> >>

\* column_mappings of standardize_current_inventory
InventoryColumnMappings ==
    << <<"part_no",
          << <<"p", "a", "r", "t", "_", "n", "o">>,
             <<"p", "a", "r", "t", "_", "n", "u", "m", "b", "e", "r">>,
             <<"m", "a", "t", "e", "r", "i", "a", "l">>,
             <<"m", "a", "t", "e", "r", "i", "a", "l", "_", "c", "o", "d", "e">>,
             <<"i", "t", "e", "m", "_", "c", "o", "d", "e">>,
             <<"c", "o", "d", "e">> >> >>,
       <<"description",
          << <<"d", "e", "s", "c", "r", "i", "p", "t", "i", "o", "n">>,
             <<"i", "t", "e", "m", "_", "d", "e", "s", "c", "r", "i", "p", "t", "i", "o", "n">>,
             <<"p", "a", "r", "t", "_", "d", "e", "s", "c", "r", "i", "p", "t", "i", "o", "n">>,
             <<"d", "e", "s", "c">> >> >>,
       <<"current_qty",
          << <<"c", "u", "r", "r", "e", "n", "t", "_", "q", "t", "y">>,
             <<"q", "t", "y">>,
             <<"q", "u", "a", "n", "t", "i", "t", "y">>,
             <<"s", "t", "o", "c", "k", "_", "q", "t", "y">>,
             <<"a", "v", "a", "i", "l", "a", "b", "l", "e", "_", "q", "t", "y">> >> >>,
       <<"stock_value",
          << <<"s", "t", "o", "c", "k", "_", "v", "a", "l", "u", "e">>,
             <<"v", "a", "l", "u", "e">>,
             <<"t", "o", "t", "a", "l", "_", "v", "a", "l", "u", "e">>,
             <<"i", "n", "v", "e", "n", "t", "o", "r", "y", "_", "v", "a", "l", "u", "e">>,
             <<"s", "t", "o", "c", "k", " ", "v", "a", "l", "u", "e">>,
             <<"S", "t", "o", "c", "k", " ", "V", "a", "l", "u", "e">> >> >>,
       <<"uom",
          << <<"u", "o", "m">>,
             <<"u", "n", "i", "t">>,
             <<"u", "n", "i", "t", "_", "o", "f", "_", "m", "e", "a", "s", "u", "r", "e">> >> >>,
       <<"location",
          << <<"l", "o", "c", "a", "t", "i", "o", "n">>,
             <<"s", "t", "o", "r", "e">>,
             <<"w", "a", "r", "e", "h", "o", "u", "s", "e">>,
             <<"s", "i", "t", "e">> >> >>,
       <<"vendor_code",
          << <<"v", "e", "n", "d", "o", "r", "_", "c", "o", "d", "e">>,
             <<"v", "e", "n", "d", "o", "r", "_", "i", "d">>,
             <<"s", "u", "p", "p", "l", "i", "e", "r", "_", "c", "o", "d", "e">>,
             <<"s", "u", "p", "p", "l", "i", "e", "r", "_", "i", "d">>,
             <<"v", "e", "n", "d", "o", "r", " ", "i", "d">>,
             <<"V", "e", "n", "d", "o", "r", " ", "C", "o", "d", "e">>,
             <<"v", "e", "n", "d", "o", "r", " ", "c", "o", "d", "e">> >> >>,
       <<"batch",
          << <<"b", "a", "t", "c", "h">>,
             <<"b", "a", "t", "c", "h", "_", "n", "u", "m", "b", "e", "r">>,
             <<"l", "o", "t">>,
             <<"l", "o", "t", "_", "n", "u", "m", "b", "e", "r">> >> >> >>

\* the decimal digits of a natural number
RECURSIVE DigitsOf(_)
DigitsOf(n) ==
    IF n < 10 THEN <<ToString(n)>>
    ELSE Append(DigitsOf(n \div 10), ToString(n % 10))

Zeros(n) == [i \in 1..n |-> "0"]

MinusIf(negative) == IF negative THEN <<"-">> ELSE <<>>

\* str(value) of a float that is a number: the shortest decimal, which is
\* written without exponent for magnitudes from 1e-4 up to 1e16
StrOfNumber(number) ==
    LET ds == DigitsOf(Abs(number.mant))
        k  == -number.exp
    IN  MinusIf(number.mant < 0) \o
        (IF number.exp >= 0 THEN ds \o Zeros(number.exp) \o <<".", "0">>
         ELSE IF Len(ds) > k
              THEN SubSeq(ds, 1, Len(ds) - k) \o <<".">>
                   \o SubSeq(ds, Len(ds) - k + 1, Len(ds))
              ELSE <<"0", ".">> \o Zeros(k - Len(ds)) \o ds)

\* str(value) of a cell
str(value) ==
    IF IsString(value) THEN value.chars
    ELSE IF value.type = "NoneType" THEN <<"N", "o", "n", "e">>
    ELSE IF value.type = "float"
         THEN IF value.nan THEN <<"n", "a", "n">>
              ELSE StrOfNumber(value.number)
    ELSE MinusIf(value.digit < 0) \o DigitsOf(Abs(value.digit))
         \o Zeros(IF value.digit = 0 THEN 0 ELSE value.zeros)

\* df.empty: no rows or no columns
empty(df) == df.columns = <<>> \/ df.rows = <<>>

\* list.index(x) for an x of the list: the first position
index(list, x) ==
    CHOOSE i \in 1..Len(list) :
        list[i] = x /\ \A j \in 1..(i - 1) : list[j] # x

Elements(list) == {list[i] : i \in 1..Len(list)}

\* row[col] for a column of the table
Cell(df, row, col) == row[index(df.columns, col)]

\* row.get(mapped_columns.get(key, ''), default): no column is named ''
OptionalCell(df, row, mapped, key, default) ==
    IF key \in DictKeys(mapped) THEN Cell(df, row, DictGet(mapped, key))
    ELSE default

EmptyString == StrValue(<<>>)

UnknownVendor == StrValue(<<"U", "n", "k", "n", "o", "w", "n">>)

\* col.lower().strip() for every column
NormalizedColumns(columns) ==
    [i \in 1..Len(columns) |-> strip(lower(columns[i]))]

\* the loop over column_mappings without its break: the last present
\* variation of a list stays
MappedColumns_LastVariation(column_mappings, Present(_), ColumnOf(_)) ==
    LET found == [i \in 1..Len(column_mappings) |->
                     LET matched == {j \in 1..Len(column_mappings[i][2]) :
                                        Present(column_mappings[i][2][j])}
                     IN  IF matched = {} THEN 0
                         ELSE CHOOSE j \in matched :
                                  \A k \in matched : k <= j]
        keys  == SelectSeq([i \in 1..Len(column_mappings) |-> i],
                           LAMBDA i : found[i] # 0)
    IN  [n \in 1..Len(keys) |->
            <<column_mappings[keys[n]][1],
              ColumnOf(column_mappings[keys[n]][2][found[keys[n]]])>>]

\* the loop over column_mappings: every key one of whose variations is
\* present is mapped, in the order of the dict, to the column of the first
\* such variation of its list (found is the place of that variation, 0 if
\* there is none)
MappedColumns(column_mappings, Present(_), ColumnOf(_)) ==
    LET found == [i \in 1..Len(column_mappings) |->
                     LET matched == {j \in 1..Len(column_mappings[i][2]) :
                                        Present(column_mappings[i][2][j])}
                     IN  IF matched = {} THEN 0
                         ELSE CHOOSE j \in matched :
                                  \A k \in matched : j <= k]
        keys  == SelectSeq([i \in 1..Len(column_mappings) |-> i],
                           LAMBDA i : found[i] # 0)
    IN  [n \in 1..Len(keys) |->
            <<column_mappings[keys[n]][1],
              ColumnOf(column_mappings[keys[n]][2][found[keys[n]]])>>]

\* mapped_columns of standardize_pfep_data by the loop without break
PfepMappedColumns_LastVariation(columns) ==
    LET df_columns == NormalizedColumns(columns)
    IN  MappedColumns_LastVariation(
            PfepColumnMappings,
            LAMBDA variation : variation \in Elements(df_columns),
            LAMBDA variation : columns[index(df_columns, variation)])

\* mapped_columns of standardize_pfep_data: a variation is looked up as it
\* is written in df_columns, and gives the first column of that name
PfepMappedColumns(columns) ==
    LET df_columns == NormalizedColumns(columns)
    IN  MappedColumns(PfepColumnMappings,
                      LAMBDA variation : variation \in Elements(df_columns),
                      LAMBDA variation :
                          columns[index(df_columns, variation)])

\* mapped_columns of standardize_current_inventory: df_columns_lower is a
\* dict, where the last column of a name stays, and a variation is looked
\* up lowercased
InventoryMappedColumns(columns) ==
    LET df_columns == NormalizedColumns(columns)
        last(name) == CHOOSE i \in 1..Len(columns) :
                          /\ df_columns[i] = name
                          /\ \A j \in (i + 1)..Len(columns) :
                                 df_columns[j] # name
    IN  MappedColumns(InventoryColumnMappings,
                      LAMBDA variation :
                          lower(variation) \in Elements(df_columns),
                      LAMBDA variation : columns[last(lower(variation))])

\* the texts passed to st.error
PfepRequiredColumnsMessage ==
    "Required columns not found. Please ensure your file has Part Number and RM Quantity columns."

InventoryRequiredColumnsMessage ==
    "Required columns not found. Please ensure your file has Part Number and Current Quantity columns."

\* what a call of a standardizer did: the mapped_columns it built, if it
\* came to build them, the messages it showed and what it returned or raised
Standardization(mapped, errors, outcome) ==
    [mapped_columns |-> mapped, errors |-> errors, outcome |-> outcome]

\* the first exception of a list of outcomes, "" if there is none
FirstRaised(outcomes) ==
    LET raised == SelectSeq(outcomes, LAMBDA o : o.raised # "")
    IN  IF raised = <<>> THEN "" ELSE raised[1].raised

\* the item of one row in standardize_pfep_data
PfepItem(df, row, mapped) ==
    LET rm_qty     == safe_float_convert(Cell(df, row,
                                              DictGet(mapped, "rm_qty")))
        rm_days    == safe_float_convert(
                          OptionalCell(df, row, mapped, "rm_days",
                                       IntValue(0, 0)))
        unit_price == safe_float_convert(
                          OptionalCell(df, row, mapped, "unit_price",
                                       IntValue(0, 0)))
        text(key, default) ==
            strip(str(OptionalCell(df, row, mapped, key, default)))
        raised == FirstRaised(<<rm_qty, rm_days, unit_price>>)
    IN  IF raised # "" THEN Raised(raised)
        ELSE Returned(
            [Part_No     |-> strip(str(Cell(df, row,
                                            DictGet(mapped, "part_no")))),
             Description |-> text("description", EmptyString),
             RM_IN_QTY   |-> rm_qty.value,
             RM_IN_DAYS  |-> rm_days.value,
             Unit_Price  |-> unit_price.value,
             Vendor_Code |-> text("vendor_code", EmptyString),
             Vendor_Name |-> text("vendor_name", UnknownVendor),
             City        |-> text("city", EmptyString),
             State       |-> text("state", EmptyString)])

\* standardize_pfep_data(df)
standardize_pfep_data(df) ==
    IF empty(df) THEN Standardization(None, <<>>, Returned(<<>>))
    ELSE
    LET mapped == PfepMappedColumns(df.columns)
        items  == [i \in 1..Len(df.rows) |-> PfepItem(df, df.rows[i], mapped)]
    IN  IF "part_no" \notin DictKeys(mapped) \/ "rm_qty" \notin DictKeys(mapped)
        THEN Standardization(Some(mapped), <<PfepRequiredColumnsMessage>>,
                             Returned(<<>>))
        ELSE IF FirstRaised(items) # ""
        THEN Standardization(Some(mapped), <<>>, Raised(FirstRaised(items)))
        ELSE Standardization(Some(mapped), <<>>,
                 Returned([i \in 1..Len(items) |-> items[i].value]))

\* the part keys that standardize_current_inventory takes for no key
NullLike == { <<"n", "a", "n">>, <<>>, <<"n", "o", "n", "e">> }

\* part_no in ('nan', '', 'none'): the comparison without .lower()
IsNullLike_AsWritten(part_no) == part_no \in NullLike

\* part_no.lower() in ('nan', '', 'none')
IsNullLike(part_no) == lower(part_no) \in NullLike

\* the item of one row in standardize_current_inventory
InventoryItem(df, row, mapped) ==
    LET current_qty == safe_float_convert(Cell(df, row,
                                               DictGet(mapped, "current_qty")))
        stock_value == safe_float_convert(
                           OptionalCell(df, row, mapped, "stock_value",
                                        IntValue(0, 0)))
        text(key) ==
            strip(str(OptionalCell(df, row, mapped, key, EmptyString)))
        raised == FirstRaised(<<current_qty, stock_value>>)
    IN  IF raised # "" THEN Raised(raised)
        ELSE Returned(
            [Part_No     |-> strip(str(Cell(df, row,
                                            DictGet(mapped, "part_no")))),
             Current_QTY |-> current_qty.value,
             Stock_Value |-> stock_value.value,
             Description |-> text("description"),
             UOM         |-> text("uom"),
             Location    |-> text("location"),
             Vendor_Code |-> text("vendor_code"),
             Batch       |-> text("batch")])

\* standardize_current_inventory(df): a row whose part key is null-like is
\* skipped, and so is a row whose conversion raises
standardize_current_inventory(df) ==
    IF empty(df) THEN Standardization(None, <<>>, Returned(<<>>))
    ELSE
    LET mapped == InventoryMappedColumns(df.columns)
        items  == [i \in 1..Len(df.rows) |->
                      InventoryItem(df, df.rows[i], mapped)]
        part_no(i) == strip(str(Cell(df, df.rows[i],
                                     DictGet(mapped, "part_no"))))
        kept   == SelectSeq([i \in 1..Len(df.rows) |-> i],
                            LAMBDA i : /\ ~IsNullLike(part_no(i))
                                       /\ items[i].raised = "")
    IN  IF \/ "part_no" \notin DictKeys(mapped)
           \/ "current_qty" \notin DictKeys(mapped)
        THEN Standardization(Some(mapped), <<InventoryRequiredColumnsMessage>>,
                             Returned(<<>>))
        ELSE Standardization(Some(mapped), <<>>,
                 Returned([n \in 1..Len(kept) |-> items[kept[n]].value]))

\* the most columns of a table passed to a standardizer
MaxColumns == 3

\* the column names of the tables tried: names of the part key as written
\* in a file, of the norm quantity, of the current quantity and of the
\* vendor code
ColumnNames ==
    { <<" ", "P", "a", "r", "t", "_", "N", "o">>,
      <<"C", "O", "D", "E">>,
      <<"c", "o", "d", "e", " ">>,
      <<"R", "M">>,
      <<"Q", "t", "y", " ">>,
      <<"V", "e", "n", "d", "o", "r", " ", "C", "o", "d", "e">> }

\* every variation of the two column_mappings
Variations ==
    UNION {Elements(PfepColumnMappings[n][2]) :
               n \in 1..Len(PfepColumnMappings)}
    \cup UNION {Elements(InventoryColumnMappings[n][2]) :
                    n \in 1..Len(InventoryColumnMappings)}

\* the lists of different column names, and every variation as the one
\* column of a table
ColumnLists ==
    {columns \in UNION {[1..n -> ColumnNames] : n \in 0..MaxColumns} :
        \A i, j \in 1..Len(columns) : columns[i] = columns[j] => i = j}
    \cup {<<variation>> : variation \in Variations}

\* the cells of the rows tried, column after column, taken round again by a
\* table of more columns
RowCells ==
    << << StrValue(<<" ", "A", "1", " ">>), IntValue(5, 0),
          StrValue(<<"b", "2", " ">>) >>,
       << NaN, FloatValue(Number(15, -1)), StrValue(<<"N", "a", "N">>) >>,
       << StrValue(<<" ", "N", "o", "n", "e", " ">>), NoneValue,
          StrValue(<<>>) >> >>

RowOf(kind, width) ==
    [j \in 1..width |-> RowCells[kind][((j - 1) % Len(RowCells[kind])) + 1]]

\* the tables tried
DataFrames ==
    {[columns |-> columns,
      rows    |-> [i \in 1..Len(kinds) |-> RowOf(kinds[i], Len(columns))]] :
        columns \in ColumnLists,
        kinds \in UNION {[1..n -> 1..Len(RowCells)] : n \in 0..MaxRows}}

StandardizeInit ==
    /\ upload \in {Some(df) : df \in DataFrames}
    /\ standardizer = None
    /\ mapped_columns = None
    /\ errors_shown = <<>>
    /\ standardized = None
    /\ ClassifierIdle
    /\ ChartIdle
    /\ ConvertIdle
    /\ PageIdle

\* what a call of a standardizer leaves behind
Leave(name, done) ==
    /\ standardizer' = Some(name)
    /\ mapped_columns' = done.mapped_columns
    /\ errors_shown' = errors_shown \o done.errors
    /\ standardized' = Some(done.outcome)
    /\ UNCHANGED <<upload, beside_standardize_vars>>

\* standardized = self.standardize_pfep_data(upload)
StandardizePfepData ==
    /\ standardizer = None
    /\ Leave("standardize_pfep_data",
             standardize_pfep_data(The(upload)))

\* standardized = self.standardize_current_inventory(upload)
StandardizeCurrentInventory ==
    /\ standardizer = None
    /\ Leave("standardize_current_inventory",
             standardize_current_inventory(The(upload)))

StandardizeNext == StandardizePfepData \/ StandardizeCurrentInventory

StandardizeSpec == StandardizeInit /\ [][StandardizeNext]_vars

(***************************************************************************)
(* Properties of the standardizers                                         *)
(***************************************************************************)

Upload == The(upload)

Standardized == The(standardized)

PfepCalled == standardizer = Some("standardize_pfep_data")

\* the column_mappings of the standardizer called
CalledMappings ==
    IF PfepCalled THEN PfepColumnMappings ELSE InventoryColumnMappings

\* the canonical fields that the standardizer called requires
RequiredFields ==
    IF PfepCalled THEN {"part_no", "rm_qty"} ELSE {"part_no", "current_qty"}

\* the variations of the table that are the normalized name of a column
PresentVariations(variations) ==
    LET names == {strip(lower(Upload.columns[i])) :
                     i \in 1..Len(Upload.columns)}
    IN  {j \in 1..Len(variations) : variations[j] \in names}

\* the required fields none of whose variations names a column
Unresolved ==
    {field \in RequiredFields :
        PresentVariations(DictGet(CalledMappings, field)) = {}}

\* the canonical fields that a message names
FieldsNamed(message) ==
    IF message = PfepRequiredColumnsMessage THEN {"part_no", "rm_qty"}
    ELSE IF message = InventoryRequiredColumnsMessage
         THEN {"part_no", "current_qty"}
         ELSE {}

\* what the standardizer called returns for a table with no rows
OfNoRows ==
    LET df == [columns |-> Upload.columns, rows |-> <<>>]
    IN  IF PfepCalled THEN standardize_pfep_data(df).outcome
        ELSE standardize_current_inventory(df).outcome

\* C14: the required-column check. When a master table has no column that
\* resolves to the part key or none that resolves to the norm quantity, or
\* a snapshot table none for the part key or none for the current quantity,
\* standardization fails with an error that names the unresolved canonical
\* fields, produces no records, and what it returns differs from what the
\* standardization of a table with no rows returns.
C14_RequiredColumnCheck ==
    standardized # None /\ Unresolved # {} =>
        /\ errors_shown # <<>>
        /\ \A i \in 1..Len(errors_shown) :
               FieldsNamed(errors_shown[i]) = Unresolved
        /\ Standardized.value \in {None, <<>>}
        /\ Standardized # OfNoRows

\* C15: column resolution. The column names are compared lowercased and
\* trimmed with the variations of each canonical field in the order of the
\* list: a field of which no variation is the normalized name of a column
\* is not mapped, and any other field is mapped to a column whose
\* normalized name is the earliest present variation of the list, wherever
\* the columns stand in the table; this holds for every variation.
C15_ColumnResolution ==
    mapped_columns # None =>
        \A n \in 1..Len(CalledMappings) :
            LET field   == CalledMappings[n][1]
                present == PresentVariations(CalledMappings[n][2])
                first   == CHOOSE j \in present : \A k \in present : j <= k
            IN  IF present = {}
                THEN field \notin DictKeys(The(mapped_columns))
                ELSE /\ field \in DictKeys(The(mapped_columns))
                     /\ DictGet(The(mapped_columns), field)
                            \in Elements(Upload.columns)
                     /\ strip(lower(DictGet(The(mapped_columns), field)))
                            = CalledMappings[n][2][first]

\* the part key is mapped to " Part_No", which stands behind the column
\* "CODE" of a later variation
C15_Witness ==
    /\ mapped_columns # None
    /\ Len(Upload.columns) >= 2
    /\ Upload.columns[1] = <<"C", "O", "D", "E">>
    /\ Upload.columns[2] = <<" ", "P", "a", "r", "t", "_", "N", "o">>
    /\ DictGet(The(mapped_columns), "part_no") = Upload.columns[2]

\* the standardizer called has returned records of the rows
RowsStandardized ==
    /\ standardized # None
    /\ ~empty(Upload)
    /\ Unresolved = {}
    /\ Standardized.raised = ""

\* the trimmed part key of a row
PartKey(row) ==
    strip(str(Cell(Upload, row, DictGet(The(mapped_columns), "part_no"))))

\* the rows whose trimmed part key is neither empty nor, in any case of its
\* letters, nan or none
KeyedRows ==
    SelectSeq(Upload.rows,
              LAMBDA row : /\ PartKey(row) # <<>>
                           /\ lower(PartKey(row)) # <<"n", "a", "n">>
                           /\ lower(PartKey(row)) # <<"n", "o", "n", "e">>)

\* records are the records of rows, one for one and in their order
RecordsOf(records, rows) ==
    /\ Len(records) = Len(rows)
    /\ \A i \in 1..Len(rows) : records[i].Part_No = PartKey(rows[i])

\* C16: the standardization of a snapshot skips every row whose trimmed
\* part key is empty or, compared without regard to case, nan or none, and
\* emits the other rows in the order of the input; the standardization of
\* a master table emits one record for each row of the input.
C16_RowFiltering ==
    RowsStandardized =>
        IF PfepCalled THEN RecordsOf(Standardized.value, Upload.rows)
        ELSE RecordsOf(Standardized.value, KeyedRows)

\* a snapshot of two rows, of which the first, with the part key NaN, has
\* been skipped and the second emitted
C16_Witness ==
    /\ RowsStandardized
    /\ ~PfepCalled
    /\ Len(Upload.rows) = 2
    /\ PartKey(Upload.rows[1]) = <<"N", "a", "N">>
    /\ Len(Standardized.value) = 1
    /\ Standardized.value[1].Part_No = PartKey(Upload.rows[2])

(***************************************************************************)
(* The pages.  Every step is one button or selectbox of the sidebar, of    *)
(* the admin page or of the user page; it changes st.session_state and the *)
(* script runs again.  What a standardizer returned for the file uploaded  *)
(* is drawn from tables of standardized rows, the empty table standing for *)
(* a file of which nothing is left.  The validation report is on the page  *)
(* for the run that made it, and is gone with the next step.  The button   *)
(* "Load Sample Inventory & Analyze" is shown where the upload of a        *)
(* snapshot is shown and stores, analyzes and locks as the upload does,    *)
(* without a validation; its sample holds the quantity 5.230, which the    *)
(* integer quantities of the classifier do not cover, and it has no step   *)
(* here.                                                                   *)
(***************************************************************************)

\* the truth value of a flag of the session: None and False are false
Flag(state, key) ==
    LET value == SessionGet(state, key, Some(FALSE))
    IN  value # None /\ The(value)

\* self.persistent_keys
PersistentKeys ==
    { "persistent_pfep_data", "persistent_pfep_locked",
      "persistent_inventory_data", "persistent_inventory_locked",
      "persistent_analysis_results" }

\* initialize_session_state: the keys that are missing get their defaults
initialize_session_state(state) == state @@ InitialSessionState

\* DataPersistence.save_data_to_session_state(key, data)
save_data_to_session_state(state, key, data) ==
    SessionSet(state, key, Some([data |-> data]))

\* a logout that clears the whole session
logout_ClearAll(state) == initialize_session_state(<<>>)

\* the logout button: the persistent keys and the preferences are kept, all
\* else is cleared, and the next run initializes the session again
logout(state) ==
    initialize_session_state(
        [key \in DOMAIN state \cap (PersistentKeys \cup {"user_preferences"})
            |-> state[key]])

\* the button "Unlock Data"
unlock_FlagOnly(state) ==
    SessionSet(state, "persistent_pfep_locked", Some(FALSE))

\* the button "Unlock Data": the lock is opened, and the snapshot, its
\* lock and the results are cleared
unlock(state) ==
    SessionSet(SessionSet(SessionSet(SessionSet(state,
        "persistent_pfep_locked", Some(FALSE)),
        "persistent_inventory_data", None),
        "persistent_inventory_locked", Some(FALSE)),
        "persistent_analysis_results", None)

\* the admin page shows its loaders whatever the lock
LoadersShown_AnyLock(state) == state.user_role = Some("Admin")

\* admin_data_management comes to the tolerance and to the loaders of the
\* master data: the admin is logged in and the master data is not locked
LoadersShown(state) ==
    /\ state.user_role = Some("Admin")
    /\ ~Flag(state, "persistent_pfep_locked")

\* the upload of a snapshot shown whether the master data is locked or not
UploadShown_AnyPfepLock(state) ==
    /\ state.user_role = Some("User")
    /\ Truthy(load_data_from_session_state(state, "persistent_pfep_data"))
    /\ ~Flag(state, "persistent_inventory_locked")

\* user_inventory_upload comes to the upload of a snapshot: a user is
\* logged in, master data is stored and locked, and no snapshot is locked
UploadShown(state) ==
    /\ state.user_role = Some("User")
    /\ Truthy(load_data_from_session_state(state, "persistent_pfep_data"))
    /\ Flag(state, "persistent_pfep_locked")
    /\ ~Flag(state, "persistent_inventory_locked")

\* user_inventory_upload comes to display_analysis_results: a user is logged
\* in, master data is stored and locked, the snapshot is locked and results
\* are stored
ResultsShown(state) ==
    /\ state.user_role = Some("User")
    /\ Truthy(load_data_from_session_state(state, "persistent_pfep_data"))
    /\ Flag(state, "persistent_pfep_locked")
    /\ Flag(state, "persistent_inventory_locked")
    /\ Truthy(load_data_from_session_state(state,
                                           "persistent_analysis_results"))

\* the tolerance of the session: st.session_state.get('admin_tolerance', 30)
CurrentTolerance(state) == SessionGet(state, "admin_tolerance", 30)

\* display_analysis_results analyzes again and runs the script again, and
\* does not come to its tables: the tolerance of the session is not that of
\* the last analysis, and both tables are stored
ReanalysisDue(state) ==
    /\ "last_analysis_tolerance" \in DOMAIN state
           => state.last_analysis_tolerance # CurrentTolerance(state)
    /\ Truthy(load_data_from_session_state(state, "persistent_pfep_data"))
    /\ Truthy(load_data_from_session_state(state,
                                           "persistent_inventory_data"))

\* perform_inventory_analysis that analyzes with the default tolerance
perform_inventory_analysis_DefaultTolerance(state) ==
    LET stored_pfep    == load_data_from_session_state(state,
                              "persistent_pfep_data")
        inventory_data == load_data_from_session_state(state,
                              "persistent_inventory_data")
        tol            == SessionGet(state, "admin_tolerance", 30)
    IN  IF ~Truthy(stored_pfep) \/ ~Truthy(inventory_data) THEN state
        ELSE SessionSet(
                 save_data_to_session_state(state,
                     "persistent_analysis_results",
                     analyze_inventory(The(stored_pfep), The(inventory_data),
                                       Some(30), state)),
                 "last_analysis_tolerance", tol)

\* perform_inventory_analysis
perform_inventory_analysis(state) ==
    LET stored_pfep    == load_data_from_session_state(state,
                              "persistent_pfep_data")
        inventory_data == load_data_from_session_state(state,
                              "persistent_inventory_data")
        tol            == SessionGet(state, "admin_tolerance", 30)
    IN  IF ~Truthy(stored_pfep) \/ ~Truthy(inventory_data) THEN state
        ELSE SessionSet(
                 save_data_to_session_state(state,
                     "persistent_analysis_results",
                     analyze_inventory(The(stored_pfep), The(inventory_data),
                                       Some(tol), state)),
                 "last_analysis_tolerance", tol)

\* the part numbers as they are written
Parts_AsWritten(data) == {data[i].Part_No : i \in 1..Len(data)}

\* the distinct normalized part numbers of a table
Parts(data) == {NormalizeKey(data[i].Part_No) : i \in 1..Len(data)}

\* a warning of the report: its text and the number of parts in it
Warning(text, parts) == [warning |-> text, parts |-> parts]

\* the report of validate_inventory_against_pfep over the part numbers of
\* the two tables; a list made of a set is held as the set
ReportOf(pfep_parts, inventory_parts, zero_qty_parts, issues) ==
    LET missing_parts == pfep_parts \ inventory_parts
        extra_parts   == inventory_parts \ pfep_parts
        warnings ==
            (IF missing_parts # {}
             THEN <<Warning("Parts missing in inventory",
                            Cardinality(missing_parts))>>
             ELSE <<>>)
            \o (IF extra_parts # {}
                THEN <<Warning("Extra parts in inventory not in PFEP",
                               Cardinality(extra_parts))>>
                ELSE <<>>)
            \o (IF zero_qty_parts # <<>>
                THEN <<Warning("Parts with zero quantity",
                               Len(zero_qty_parts))>>
                ELSE <<>>)
    IN  [is_valid              |-> issues = <<>>,
         issues                |-> issues,
         warnings              |-> warnings,
         pfep_parts_count      |-> Cardinality(pfep_parts),
         inventory_parts_count |-> Cardinality(inventory_parts),
         matching_parts_count  |-> Cardinality(pfep_parts \cap inventory_parts),
         missing_parts_count   |-> Cardinality(missing_parts),
         extra_parts_count     |-> Cardinality(extra_parts),
         missing_parts_list    |-> missing_parts,
         extra_parts_list      |-> extra_parts,
         zero_qty_parts_list   |-> zero_qty_parts]

\* the normalized part numbers of the rows whose quantity is 0
ZeroQtyParts(inventory_data) ==
    LET rows == SelectSeq(inventory_data, LAMBDA row : row.Current_QTY = 0)
    IN  [i \in 1..Len(rows) |-> NormalizeKey(rows[i].Part_No)]

NoPfepReport ==
    [is_valid |-> FALSE, issues |-> <<"No PFEP data available">>,
     warnings |-> <<>>]

\* validate_inventory_against_pfep with the part numbers as they are written
validate_inventory_against_pfep_AsWritten(inventory_data, state) ==
    LET stored_pfep == load_data_from_session_state(state,
                           "persistent_pfep_data")
    IN  IF ~Truthy(stored_pfep) THEN NoPfepReport
        ELSE ReportOf(Parts_AsWritten(The(stored_pfep)),
                      Parts_AsWritten(inventory_data),
                      ZeroQtyParts(inventory_data), <<>>)

\* validate_inventory_against_pfep where a part that the master data does
\* not hold is an issue
validate_inventory_against_pfep_ExtraIsIssue(inventory_data, state) ==
    LET stored_pfep == load_data_from_session_state(state,
                           "persistent_pfep_data")
    IN  IF ~Truthy(stored_pfep) THEN NoPfepReport
        ELSE ReportOf(Parts(The(stored_pfep)), Parts(inventory_data),
                      ZeroQtyParts(inventory_data),
                      IF Parts(inventory_data) \ Parts(The(stored_pfep)) # {}
                      THEN <<"Extra parts in inventory not in PFEP">>
                      ELSE <<>>)

\* validate_inventory_against_pfep(inventory_data)
validate_inventory_against_pfep(inventory_data, state) ==
    LET stored_pfep == load_data_from_session_state(state,
                           "persistent_pfep_data")
    IN  IF ~Truthy(stored_pfep) THEN NoPfepReport
        ELSE ReportOf(Parts(The(stored_pfep)), Parts(inventory_data),
                      ZeroQtyParts(inventory_data), <<>>)

\* a call of validate_inventory_against_pfep: its argument, the master data
\* stored at the call and the report returned
Validation(inventory_data, state) ==
    [inventory_data |-> inventory_data,
     stored_pfep    |-> load_data_from_session_state(state,
                            "persistent_pfep_data"),
     report         |-> validate_inventory_against_pfep(inventory_data, state)]

\* rows that standardize_pfep_data returns
StandardizedMasterRows ==
    { [Part_No |-> <<"A", "1">>, RM_IN_QTY |-> 10, Unit_Price |-> 5,
       Vendor_Name |-> "Vendor_A"],
      [Part_No |-> <<"b", "2">>, RM_IN_QTY |-> 10, Unit_Price |-> 2,
       Vendor_Name |-> "Vendor_B"] }

\* rows that standardize_current_inventory returns
StandardizedSnapshotRows ==
    { [Part_No |-> <<"a", "1">>, Current_QTY |-> 15, Stock_Value |-> 75],
      [Part_No |-> <<"B", "2">>, Current_QTY |-> 0, Stock_Value |-> 0],
      [Part_No |-> <<"Z", "9">>, Current_QTY |-> 7, Stock_Value |-> 35],
      [Part_No |-> <<"A", "1">>, Current_QTY |-> 12, Stock_Value |-> 60] }

\* load_sample_pfep_data()
SamplePfepData ==
    << [Part_No |-> <<"A", "C", "0", "3", "0", "3", "0", "2", "0", "1", "0", "6">>,
        RM_IN_QTY |-> 4, Unit_Price |-> 100, Vendor_Name |-> "Vendor_A"],
       [Part_No |-> <<"J", "J", "1", "0", "1", "0", "1", "0", "1", "0", "1", "0">>,
        RM_IN_QTY |-> 25, Unit_Price |-> 100, Vendor_Name |-> "Vendor_B"] >>

\* the options of the tolerance selectbox that the pages try: the default,
\* one below it and one above it
SelectboxOptions == {10, 30, 50}

PageInit ==
    /\ ClassifierIdle
    /\ ChartIdle
    /\ ConvertIdle
    /\ StandardizeIdle
    /\ PageIdle

\* the sidebar without a role: the admin logs in, by the password or by the
\* demo button, or a user enters
Login(role) ==
    /\ session_state.user_role = None
    /\ session_state' = SessionSet(session_state, "user_role", Some(role))
    /\ validation' = None
    /\ UNCHANGED beside_page_vars

\* the buttons "Switch to User View" of the sidebar and "Go to User View" of
\* the locked admin page
SwitchToUserView ==
    /\ session_state.user_role = Some("Admin")
    /\ Flag(session_state, "persistent_pfep_locked")
    /\ session_state' = SessionSet(session_state, "user_role", Some("User"))
    /\ validation' = None
    /\ UNCHANGED beside_page_vars

\* the logout button of the sidebar
Logout ==
    /\ session_state.user_role # None
    /\ session_state' = logout(session_state)
    /\ validation' = None
    /\ UNCHANGED beside_page_vars

\* the button "Unlock Data" of the locked admin page
UnlockData ==
    /\ session_state.user_role = Some("Admin")
    /\ Flag(session_state, "persistent_pfep_locked")
    /\ session_state' = unlock(session_state)
    /\ validation' = None
    /\ UNCHANGED beside_page_vars

\* the admin page, not locked, is shown for the first time: the tolerance
\* of the session is initialized
ShowTolerance ==
    /\ LoadersShown(session_state)
    /\ "admin_tolerance" \notin DOMAIN session_state
    /\ session_state' = SessionSet(session_state, "admin_tolerance", 30)
    /\ validation' = None
    /\ UNCHANGED beside_page_vars

\* the tolerance selectbox of the admin page
SelectTolerance(new_tolerance) ==
    /\ LoadersShown(session_state)
    /\ SetAdminTolerance(new_tolerance)

\* the button "Process & Load PFEP Data" of handle_pfep_file_upload: what
\* the standardizer returned is stored unless it is empty
ProcessPfepFile(standardized_data) ==
    /\ LoadersShown(session_state)
    /\ standardized_data # <<>>
    /\ session_state' = save_data_to_session_state(session_state,
                            "persistent_pfep_data", standardized_data)
    /\ validation' = None
    /\ UNCHANGED beside_page_vars

\* the button "Load Sample PFEP Data" of handle_pfep_sample_data
LoadSamplePfep ==
    /\ LoadersShown(session_state)
    /\ session_state' = save_data_to_session_state(session_state,
                            "persistent_pfep_data", SamplePfepData)
    /\ validation' = None
    /\ UNCHANGED beside_page_vars

\* a lock button that is shown whether master data is stored or not
LockPfepData_WithoutData ==
    /\ LoadersShown(session_state)
    /\ session_state' = SessionSet(session_state, "persistent_pfep_locked",
                                   Some(TRUE))
    /\ validation' = None
    /\ UNCHANGED beside_page_vars

\* the buttons "Lock PFEP Data" of the two loaders
LockPfepData ==
    /\ LoadersShown(session_state)
    /\ Truthy(load_data_from_session_state(session_state,
                                           "persistent_pfep_data"))
    /\ session_state' = SessionSet(session_state, "persistent_pfep_locked",
                                   Some(TRUE))
    /\ validation' = None
    /\ UNCHANGED beside_page_vars

\* the button "Process & Analyze Inventory" of user_inventory_upload: what
\* the standardizer returned is validated and, the report being valid,
\* stored, analyzed and locked
ProcessInventoryFile(standardized_data) ==
    /\ UploadShown(session_state)
    /\ standardized_data # <<>>
    /\ LET called == Validation(standardized_data, session_state)
       IN  /\ validation' = Some(called)
           /\ session_state' =
                  IF called.report.is_valid
                  THEN SessionSet(
                           perform_inventory_analysis(
                               save_data_to_session_state(session_state,
                                   "persistent_inventory_data",
                                   standardized_data)),
                           "persistent_inventory_locked", Some(TRUE))
                  ELSE session_state
    /\ UNCHANGED beside_page_vars

\* display_analysis_results on the user page with a locked snapshot: when
\* the tolerance of the session is not that of the stored results, the
\* tables are analyzed again
DisplayAnalysisResults ==
    /\ session_state.user_role = Some("User")
    /\ Truthy(load_data_from_session_state(session_state,
                                           "persistent_pfep_data"))
    /\ Flag(session_state, "persistent_pfep_locked")
    /\ Flag(session_state, "persistent_inventory_locked")
    /\ Truthy(load_data_from_session_state(session_state,
                                           "persistent_analysis_results"))
    /\ "last_analysis_tolerance" \in DOMAIN session_state
           => session_state.last_analysis_tolerance
              # SessionGet(session_state, "admin_tolerance", 30)
    /\ Truthy(load_data_from_session_state(session_state,
                                           "persistent_inventory_data"))
    /\ session_state' = perform_inventory_analysis(session_state)
    /\ validation' = None
    /\ UNCHANGED beside_page_vars

PageNext ==
    \/ \E role \in {"Admin", "User"} : Login(role)
    \/ SwitchToUserView
    \/ Logout
    \/ UnlockData
    \/ ShowTolerance
    \/ \E v \in SelectboxOptions : SelectTolerance(v)
    \/ \E data \in Tables(StandardizedMasterRows) : ProcessPfepFile(data)
    \/ LoadSamplePfep
    \/ LockPfepData
    \/ \E data \in Tables(StandardizedSnapshotRows) : ProcessInventoryFile(data)
    \/ DisplayAnalysisResults

PageSpec == PageInit /\ [][PageNext]_vars

(***************************************************************************)
(* Properties of the pages                                                 *)
(***************************************************************************)

\* the last call of validate_inventory_against_pfep
Called == The(validation)

\* the uppercase, trimmed part numbers of a table
Keys(data) == {upper(strip(data[i].Part_No)) : i \in 1..Len(data)}

\* the uppercase, trimmed part numbers of the rows of quantity 0, row after
\* row
ZeroQuantityKeys(data) ==
    LET rows == SelectSeq(data, LAMBDA row : row.Current_QTY = 0)
    IN  [i \in 1..Len(rows) |-> upper(strip(rows[i].Part_No))]

\* C17: the validation report is computed on uppercase, trimmed keys. Its
\* missing parts are the master keys that the snapshot does not hold, its
\* extra parts the snapshot keys that the master does not hold, its zero
\* quantity parts the snapshot rows of quantity 0, and the matching count
\* plus the missing count is the master count, the matching count plus the
\* extra count the snapshot count.
C17_ValidationReport ==
    validation # None =>
        LET report   == Called.report
            master   == Keys(The(Called.stored_pfep))
            snapshot == Keys(Called.inventory_data)
        IN  /\ report.missing_parts_list = master \ snapshot
            /\ report.extra_parts_list = snapshot \ master
            /\ report.zero_qty_parts_list
                   = ZeroQuantityKeys(Called.inventory_data)
            /\ report.missing_parts_count = Cardinality(master \ snapshot)
            /\ report.extra_parts_count = Cardinality(snapshot \ master)
            /\ report.matching_parts_count + report.missing_parts_count
                   = report.pfep_parts_count
            /\ report.matching_parts_count + report.extra_parts_count
                   = report.inventory_parts_count

\* a snapshot with the part Z9, which the master data does not hold, and
\* with a row of quantity 0 has been validated against master data with a
\* part that the snapshot does not hold
C17_Witness ==
    /\ validation # None
    /\ <<"Z", "9">> \in Called.report.extra_parts_list
    /\ Called.report.missing_parts_list # {}
    /\ Called.report.zero_qty_parts_list # <<>>
    /\ Called.report.matching_parts_count > 0

\* the data stored in the session under a key
Stored(state, key) == load_data_from_session_state(state, key)

\* C18: validation is advisory. Wherever validate_inventory_against_pfep is
\* called, its report has no issues and is valid, so that the snapshot, not
\* empty, that was standardized is stored, classified and locked whatever
\* the warnings of the report.
C18_ValidationAdvisory ==
    [][\A data \in Tables(StandardizedSnapshotRows) :
           validation' # None
           /\ The(validation').inventory_data = data
           /\ ProcessInventoryFile(data)
               => /\ The(validation').report.issues = <<>>
                  /\ The(validation').report.is_valid
                  /\ Stored(session_state', "persistent_inventory_data")
                         = Some(data)
                  /\ Stored(session_state', "persistent_analysis_results")
                         = Some(analyze_inventory(
                                The(Stored(session_state,
                                           "persistent_pfep_data")),
                                data,
                                Some(SessionGet(session_state,
                                                "admin_tolerance", 30)),
                                session_state))
                  /\ Flag(session_state', "persistent_inventory_locked")]_vars

\* a snapshot whose report has warnings is stored, classified and locked
C18_Witness ==
    /\ validation # None
    /\ Len(Called.report.warnings) = 3
    /\ Stored(session_state, "persistent_inventory_data")
           = Some(Called.inventory_data)
    /\ Stored(session_state, "persistent_analysis_results") # None
    /\ Flag(session_state, "persistent_inventory_locked")

\* C19: the lock of the master data goes from unlocked to locked and back.
\* It is set only when master data is stored, and the step that opens it
\* clears the snapshot and the analysis results, sets the lock of the
\* snapshot to false and keeps the master data.
C19_PfepLockCascade ==
    [][/\ ~Flag(session_state, "persistent_pfep_locked")
          /\ Flag(session_state', "persistent_pfep_locked")
              => /\ Truthy(Stored(session_state, "persistent_pfep_data"))
                 /\ session_state'.persistent_pfep_data
                        = session_state.persistent_pfep_data
       /\ Flag(session_state, "persistent_pfep_locked")
          /\ ~Flag(session_state', "persistent_pfep_locked")
              => /\ session_state'.persistent_inventory_data = None
                 /\ session_state'.persistent_analysis_results = None
                 /\ session_state'.persistent_inventory_locked = Some(FALSE)
                 /\ session_state'.persistent_pfep_locked = Some(FALSE)
                 /\ session_state'.persistent_pfep_data
                        = session_state.persistent_pfep_data]_vars

\* the admin has unlocked the master data: it is kept, and no snapshot and
\* no results are stored
C19_Witness ==
    /\ session_state.user_role = Some("Admin")
    /\ session_state.persistent_pfep_locked = Some(FALSE)
    /\ Truthy(Stored(session_state, "persistent_pfep_data"))
    /\ session_state.persistent_inventory_data = None
    /\ session_state.persistent_analysis_results = None
    /\ session_state.persistent_inventory_locked = Some(FALSE)

\* C20: the master data does not change while it is locked. Every step
\* taken while the lock is true, the logout and the next login among them,
\* leaves the stored master data as it is; it is loaded or replaced only
\* while the lock is false.
C20_LockedPfepUnchanged ==
    [][Flag(session_state, "persistent_pfep_locked")
           => session_state'.persistent_pfep_data
                  = session_state.persistent_pfep_data]_vars

\* the admin is logged in again after a user stored a snapshot against the
\* locked master data
C20_Witness ==
    /\ Flag(session_state, "persistent_pfep_locked")
    /\ Truthy(Stored(session_state, "persistent_pfep_data"))
    /\ session_state.user_role = Some("Admin")
    /\ Flag(session_state, "persistent_inventory_locked")

\* the analysis results that the session stores
StoredResults(state) == Stored(state, "persistent_analysis_results")

\* the classification of the stored tables with the tolerance of the session
FreshResults(state) ==
    analyze_inventory(The(Stored(state, "persistent_pfep_data")),
                      The(Stored(state, "persistent_inventory_data")),
                      Some(CurrentTolerance(state)), state)

\* the user page shows the tables of display_analysis_results
ResultsDisplayed(state) == ResultsShown(state) /\ ~ReanalysisDue(state)

\* C21: the results are tied to the tolerance that made them. In every state
\* where the user page displays the analysis results, both tables are stored,
\* the stored results are the classification of the stored master data and
\* snapshot with the tolerance of the session, and last_analysis_tolerance is
\* that tolerance; and every step that changes the stored results either
\* clears them or stores that whole classification for the new state.
C21_ResultsTiedToTolerance ==
    /\ [](ResultsDisplayed(session_state)
            => /\ Truthy(Stored(session_state, "persistent_pfep_data"))
               /\ Truthy(Stored(session_state, "persistent_inventory_data"))
               /\ StoredResults(session_state)
                      = Some(FreshResults(session_state))
               /\ "last_analysis_tolerance" \in DOMAIN session_state
               /\ session_state.last_analysis_tolerance
                      = CurrentTolerance(session_state))
    /\ [][StoredResults(session_state') # StoredResults(session_state)
            => \/ StoredResults(session_state') = None
               \/ /\ Truthy(Stored(session_state', "persistent_pfep_data"))
                  /\ Truthy(Stored(session_state',
                                   "persistent_inventory_data"))
                  /\ StoredResults(session_state')
                         = Some(FreshResults(session_state'))]_vars

\* results are displayed that hold a part within the norms under the
\* tolerance 50 which the admin selected, and in excess under the default
C21_Witness ==
    /\ ResultsDisplayed(session_state)
    /\ CurrentTolerance(session_state) = 50
    /\ \E i \in 1..Len(The(StoredResults(session_state))) :
           LET rec == The(StoredResults(session_state))[i]
           IN  /\ rec["Status"] = StatusWithin
               /\ rec["Current Inventory-QTY"] = 15
               /\ rec["Inventory Norms - QTY"] = 10

\* C22: the logout clears only the user session. After the step of the
\* logout button user_role is None, and the five persistent keys and
\* user_preferences hold the values that they held before it.
C22_LogoutKeepsPersistentData ==
    [][Logout
         => /\ session_state'.user_role = None
            /\ \A key \in PersistentKeys \cup {"user_preferences"} :
                   /\ key \in DOMAIN session_state'
                   /\ session_state'[key] = session_state[key]]_vars

\* logged out of a session whose tolerance the admin had selected, with the
\* master data, the snapshot, both locks and the results still stored
C22_Witness ==
    /\ session_state.user_role = None
    /\ "admin_tolerance" \notin DOMAIN session_state
    /\ Truthy(Stored(session_state, "persistent_pfep_data"))
    /\ Flag(session_state, "persistent_pfep_locked")
    /\ Truthy(Stored(session_state, "persistent_inventory_data"))
    /\ Flag(session_state, "persistent_inventory_locked")
    /\ Truthy(StoredResults(session_state))

\* C23: the snapshot depends on the locked master data. In every state where
\* a snapshot is stored or the lock of the snapshot is true, master data is
\* stored and its lock is true; and a step stores a snapshot or new results
\* only on the user page, with master data stored and locked before it.
C23_SnapshotNeedsLockedPfep ==
    /\ []((\/ Stored(session_state, "persistent_inventory_data") # None
           \/ Flag(session_state, "persistent_inventory_locked"))
            => /\ Truthy(Stored(session_state, "persistent_pfep_data"))
               /\ Flag(session_state, "persistent_pfep_locked"))
    /\ [][(\/ /\ Stored(session_state', "persistent_inventory_data") # None
              /\ Stored(session_state', "persistent_inventory_data")
                     # Stored(session_state, "persistent_inventory_data")
           \/ /\ StoredResults(session_state') # None
              /\ StoredResults(session_state')
                     # StoredResults(session_state))
            => /\ session_state.user_role = Some("User")
               /\ Truthy(Stored(session_state, "persistent_pfep_data"))
               /\ Flag(session_state, "persistent_pfep_locked")]_vars

\* a user has stored a snapshot, and it is locked
C23_Witness ==
    /\ session_state.user_role = Some("User")
    /\ Truthy(Stored(session_state, "persistent_inventory_data"))
    /\ Flag(session_state, "persistent_inventory_locked")
    /\ Truthy(Stored(session_state, "persistent_pfep_data"))
    /\ Flag(session_state, "persistent_pfep_locked")

\* C24: locked master data is there. In every state where the lock of the
\* master data is true, master data is stored and is not empty; the stored
\* master data is never the empty list; the lock is set only when master
\* data is stored; and no step taken while the lock is true removes it.
C24_LockedPfepLoaded ==
    /\ [](/\ Flag(session_state, "persistent_pfep_locked")
             => Truthy(Stored(session_state, "persistent_pfep_data"))
          /\ Stored(session_state, "persistent_pfep_data") # Some(<<>>))
    /\ [][/\ ~Flag(session_state, "persistent_pfep_locked")
             /\ Flag(session_state', "persistent_pfep_locked")
                 => Truthy(Stored(session_state, "persistent_pfep_data"))
          /\ Flag(session_state, "persistent_pfep_locked")
                 => Truthy(Stored(session_state', "persistent_pfep_data"))]_vars

\* the admin has locked the master data of an uploaded file and is logged
\* out
C24_Witness ==
    /\ Flag(session_state, "persistent_pfep_locked")
    /\ Truthy(Stored(session_state, "persistent_pfep_data"))
    /\ Stored(session_state, "persistent_pfep_data") # Some(SamplePfepData)
    /\ session_state.user_role = None

\* C25: a locked snapshot has results. In every state where the lock of the
\* snapshot is true, the stored analysis results are a list that is not
\* empty, so that the user page, which shows no upload while the lock is
\* true, shows results.
C25_LockedSnapshotHasResults ==
    Flag(session_state, "persistent_inventory_locked")
        => Truthy(StoredResults(session_state))

\* the step is a choice of the admin in the tolerance selectbox
ToleranceSelected == \E v \in SelectboxOptions : SelectTolerance(v)

\* C26: the tolerance that the admin selected stays in force until the admin
\* selects another. Every step that is not a choice in the tolerance
\* selectbox (a login, a logout, a switch of role, a lock, an unlock, a
\* load, an upload, a display) leaves the tolerance of the session as it is,
\* and the results stored after it were made with that tolerance.
C26_ToleranceStaysInForce ==
    [][~ToleranceSelected
         => /\ CurrentTolerance(session_state')
                   = CurrentTolerance(session_state)
            /\ (/\ StoredResults(session_state') # None
                /\ "last_analysis_tolerance" \in DOMAIN session_state')
                   => session_state'.last_analysis_tolerance
                          = CurrentTolerance(session_state)]_vars

\* the part numbers of the stored results
ResultKeys(results) == {results[i]["PART NO"] : i \in 1..Len(results)}

\* C27: the validator and the classifier agree on the join. After an upload
\* that was validated and classified, the number of records that
\* analyze_inventory returned is the matching_parts_count of the report of
\* validate_inventory_against_pfep for the same tables, and the part numbers
\* of the records are the part numbers, trimmed and in upper case, that the
\* master data and the snapshot have in common.
C27_ValidatorAgreesWithClassifier ==
    validation # None /\ StoredResults(session_state) # None
        => LET results == The(StoredResults(session_state))
           IN  /\ Stored(session_state, "persistent_inventory_data")
                      = Some(Called.inventory_data)
               /\ Stored(session_state, "persistent_pfep_data")
                      = Called.stored_pfep
               /\ Len(results) = Called.report.matching_parts_count
               /\ ResultKeys(results)
                      = Keys(The(Called.stored_pfep))
                            \cap Keys(Called.inventory_data)
               /\ Cardinality(ResultKeys(results)) = Len(results)

\* a snapshot of two rows that spell one part of the master data in two
\* ways has been validated and classified: one part matches
C27_Witness ==
    /\ validation # None
    /\ StoredResults(session_state) # None
    /\ Len(Called.inventory_data) = 2
    /\ Called.inventory_data[1].Part_No # Called.inventory_data[2].Part_No
    /\ Cardinality(Keys(Called.inventory_data)) = 1
    /\ Cardinality(Keys(The(Called.stored_pfep))) = 2
    /\ Called.report.matching_parts_count = 1
    /\ Len(The(StoredResults(session_state))) = 1

\* the records of two results that stand for the same part
SamePart(a, b) == a["PART NO"] = b["PART NO"]

\* the second results are those of a tolerance that is not smaller
Widened(narrow, wide) ==
    /\ ResultKeys(narrow) = ResultKeys(wide)
    /\ \A a \in Records(narrow), b \in Records(wide) :
           SamePart(a, b)
               => /\ HasStatus(a, StatusWithin) => HasStatus(b, StatusWithin)
                  /\ ~(HasStatus(a, StatusExcess) /\ HasStatus(b, StatusShort))
                  /\ ~(HasStatus(a, StatusShort) /\ HasStatus(b, StatusExcess))

\* C28: the classification is monotone in the tolerance. When the same
\* tables are classified with a tolerance t1 >= 0 and then with a tolerance
\* t2 >= t1, every part that was Within Norms is Within Norms, no part goes
\* from Excess to Short or from Short to Excess, and the part numbers of the
\* results are the same.
C28_MonotoneInTolerance ==
    [][\A t \in ToleranceArgs :
           (/\ analysis_results # None
            /\ tolerance # None
            /\ tolerance' = t
            /\ AnalyzeInventory(t)
            /\ 0 <= The(tolerance)
            /\ The(tolerance) <= EffectiveTolerance(t, session_state))
               => Widened(The(analysis_results), The(analysis_results'))]_vars

\* a call with the tolerance 30 has returned a part at +30 % and a part at
\* -30 %, which are within the norms under 30 and outside them under 0,
\* and a part in excess under both
C28_Witness ==
    /\ analysis_results # None
    /\ tolerance = Some(30)
    /\ Len(The(analysis_results)) = 2
    /\ pfep_data # <<>>
    /\ \E a, b \in Records(The(analysis_results)) :
        /\ NormQty(a) > 0 /\ VariancePct(a) = FloatOfInt(-30)
        /\ HasStatus(a, StatusWithin)
        /\ NormQty(b) > 0 /\ VariancePct(b) = FloatOfInt(50)
        /\ HasStatus(b, StatusExcess)

(***************************************************************************)
(* Tables that repeat a part number.  Neither standardizer removes a       *)
(* repeated part number, so the tables passed to analyze_inventory may     *)
(* hold several rows of one part, spelled alike or not.                    *)
(***************************************************************************)

\* the longest table with repeated part numbers
MaxRepeatedRows == 3

\* the tables of at most MaxRepeatedRows rows
RepeatedTables(rows) == UNION {[1..n -> rows] : n \in 0..MaxRepeatedRows}

\* rows of a master table: two spellings of the part A1 with their own
\* values, and the part B2
RepeatedMasterRows ==
    { [Part_No |-> <<"A", "1">>, RM_IN_QTY |-> 10, Unit_Price |-> 5,
       Vendor_Name |-> "Vendor_A"],
      [Part_No |-> <<"a", "1", " ">>, RM_IN_QTY |-> 20, Unit_Price |-> 3,
       Vendor_Name |-> "Vendor_B"],
      [Part_No |-> <<"B", "2">>, RM_IN_QTY |-> 10, Unit_Price |-> 2,
       Vendor_Name |-> "Vendor_B"] }

\* rows of a snapshot table: two spellings of the part A1 with their own
\* values, and the part B2
RepeatedSnapshotRows ==
    { [Part_No |-> <<"A", "1">>, Current_QTY |-> 15, Stock_Value |-> 75],
      [Part_No |-> <<" ", "a", "1">>, Current_QTY |-> 6, Stock_Value |-> 30],
      [Part_No |-> <<"b", "2">>, Current_QTY |-> 7, Stock_Value |-> 35] }

RepeatedInit ==
    /\ pfep_data \in RepeatedTables(RepeatedMasterRows)
    /\ current_inventory \in RepeatedTables(RepeatedSnapshotRows)
    /\ tolerance = None
    /\ session_state = InitialSessionState
    /\ analysis_results = None
    /\ summary_data = None
    /\ total_value = None
    /\ vendor_summary = None
    /\ OtherIdle

RepeatedNext == \E t \in {Some(30)} : AnalyzeInventory(t)

RepeatedSpec == RepeatedInit /\ [][RepeatedNext]_vars

\* the rows of a table whose part number, trimmed and in upper case, is key
RowsOf(rows, key) == {i \in 1..Len(rows) : upper(strip(rows[i].Part_No)) = key}

\* the first and the last of them
FirstOf(rows, key) == CHOOSE i \in RowsOf(rows, key) : \A j \in RowsOf(rows, key) : i <= j

LastOf(rows, key) == CHOOSE i \in RowsOf(rows, key) : \A j \in RowsOf(rows, key) : j <= i

\* C29: repeated part numbers give one record per part. The part numbers of
\* the records that analyze_inventory returned are pairwise distinct, one for
\* each part that both tables hold; each record has the values of the last
\* row of its part in the snapshot and of the last row of its part in the
\* master table; and the records stand in the order in which their parts
\* come first in the snapshot.
C29_OneRecordPerPart ==
    analysis_results # None =>
        LET results == The(analysis_results)
        IN  /\ \A i, j \in 1..Len(results) :
                   i # j => results[i]["PART NO"] # results[j]["PART NO"]
            /\ ResultKeys(results)
                   = Keys(pfep_data) \cap Keys(current_inventory)
            /\ \A i \in 1..Len(results) :
                   LET key            == results[i]["PART NO"]
                       inventory_item == current_inventory[
                                             LastOf(current_inventory, key)]
                       pfep_item      == pfep_data[LastOf(pfep_data, key)]
                   IN  /\ CurrentQty(results[i]) = inventory_item.Current_QTY
                       /\ results[i]["Current Inventory - VALUE"]
                              = inventory_item.Stock_Value
                       /\ NormQty(results[i]) = pfep_item.RM_IN_QTY
                       /\ UnitPrice(results[i]) = pfep_item.Unit_Price
                       /\ results[i]["Vendor Name"] = pfep_item.Vendor_Name
            /\ \A i, j \in 1..Len(results) :
                   i < j => FirstOf(current_inventory, results[i]["PART NO"])
                                < FirstOf(current_inventory,
                                          results[j]["PART NO"])

\* the snapshot holds the part A1, the part B2 and the part A1 again, and
\* the master table holds A1 twice and then B2: the record of A1 comes
\* first, with the values of the third row of the snapshot and of the second
\* row of the master table, and the record of B2 follows
C29_Witness ==
    /\ analysis_results # None
    /\ Len(current_inventory) = 3
    /\ upper(strip(current_inventory[1].Part_No)) = <<"A", "1">>
    /\ upper(strip(current_inventory[2].Part_No)) = <<"B", "2">>
    /\ upper(strip(current_inventory[3].Part_No)) = <<"A", "1">>
    /\ current_inventory[3].Current_QTY # current_inventory[1].Current_QTY
    /\ Len(pfep_data) = 3
    /\ RowsOf(pfep_data, <<"A", "1">>) = {1, 2}
    /\ pfep_data[1].RM_IN_QTY # pfep_data[2].RM_IN_QTY
    /\ Len(The(analysis_results)) = 2
    /\ The(analysis_results)[1]["PART NO"] = <<"A", "1">>
    /\ The(analysis_results)[2]["PART NO"] = <<"B", "2">>
    /\ CurrentQty(The(analysis_results)[1]) = current_inventory[3].Current_QTY
    /\ NormQty(The(analysis_results)[1]) = pfep_data[2].RM_IN_QTY

\* the step is a call of analyze_inventory
Analyzed == \E t \in ToleranceArgs : tolerance' = t /\ AnalyzeInventory(t)

\* C30: the classification and the aggregation have no side effects. A call
\* of analyze_inventory leaves the master table, the snapshot table with
\* their records and every entry of the session state as they are; a call
\* of get_vendor_summary leaves these and the records passed to it as they
\* are.
C30_NoSideEffects ==
    [][/\ Analyzed \/ analysis_results' # analysis_results
           => /\ pfep_data' = pfep_data
              /\ current_inventory' = current_inventory
              /\ session_state' = session_state
       /\ DisplaySummary \/ vendor_summary' # vendor_summary
           => /\ pfep_data' = pfep_data
              /\ current_inventory' = current_inventory
              /\ session_state' = session_state
              /\ vendor_summary' = None
                     \/ analysis_results' = analysis_results]_vars

\* both tables hold rows, the admin has selected a tolerance, and
\* analyze_inventory and get_vendor_summary have returned for them
C30_Witness ==
    /\ Len(pfep_data) = 2
    /\ Len(current_inventory) = 2
    /\ "admin_tolerance" \in DOMAIN session_state
    /\ analysis_results # None
    /\ The(analysis_results) # <<>>
    /\ vendor_summary # None

====
